---- MODULE Spec2Model ----
(***************************************************************************)
(* A model of distil_primitives_contrib: fuzzy_join.py (FuzzyJoinPrimitive), *)
(* isolation_forest.py (IsolationForestPrimitive) and concat.py            *)
(* (VerticalConcatenationPrimitive).                                       *)
(*                                                                         *)
(* Number representation.  Python floats are modelled as fixed-point       *)
(* integers in units of 1/One (One == 100 stands for 1.0), so 10.4 is 1040 *)
(* and an accuracy of 0.95 is 95.  A cell of a table is a tuple: <<n>> for *)
(* the value n and <<>> for a missing value (NaN / None), so that missing  *)
(* values take part in equality tests like any other value.  Strings are   *)
(* modelled by integer identifiers, <<s>>.                                 *)
(***************************************************************************)
EXTENDS Integers, Sequences, FiniteSets, TLC

VARIABLES
    pc,           \* position of the running call
    call,         \* arguments of the call, as they were when it was made
    ret,          \* value returned by the call
    error,        \* exception raised by the call ("none": no exception)
    hyperparams,  \* self.hyperparams of the primitive
    left,         \* the caller's left dataset (produce works on its table)
    right,        \* the caller's right dataset (produce works on its table)
    frame,        \* local variables of produce
    self          \* instance attributes of the IsolationForestPrimitive

vars == <<pc, call, ret, error, hyperparams, left, right, frame, self>>

\* the variables of produce, untouched by the calls of the single functions
produceVars == <<error, hyperparams, left, right, frame, self>>

\* their value when no produce call is modelled
NoError == [exception |-> "none", message |-> <<>>]

NoProduce ==
    /\ error = NoError
    /\ hyperparams = <<>>
    /\ left = <<>>
    /\ right = <<>>
    /\ frame = <<>>
    /\ self = <<>>

(***************************************************************************)
(* Bounds of the model.                                                    *)
(***************************************************************************)
MaxChoices == 3
MaxTags == 2
MaxRows == 2
MaxPairs == 2
VectorLength == 2
MaxInputs == 2

(***************************************************************************)
(* Floats.                                                                 *)
(***************************************************************************)
One == 100
Inf == 1000000
NaN == <<>>
None == <<>>

Num(n) == <<n>>
IsNaN(x) == x = NaN
Abs(n) == IF n < 0 THEN -n ELSE n

\* a <= b on floats: False as soon as one side is NaN
FloatLe(a, b) == ~IsNaN(a) /\ ~IsNaN(b) /\ a[1] <= b[1]

\* abs(match - num)
Distance(match, num) ==
    IF IsNaN(match) \/ IsNaN(num) THEN NaN ELSE Num(Abs(match[1] - num[1]))

(***************************************************************************)
(* _numeric_fuzzy_match                                                    *)
(***************************************************************************)
\* (variant of Tolerance that takes the accuracy as the tolerance throughout)
AccuracyAsTolerance(match, accuracy, is_absolute) == Num(accuracy * One)

\* The tolerance of lines 559-563, in units of 1/(One*One): the product
\* float(match) * (1.0 - accuracy) is kept unrounded.
Tolerance(match, accuracy, is_absolute) ==
    IF is_absolute THEN Num(accuracy * One)
    ELSE IF IsNaN(match) THEN NaN
    ELSE Num(match[1] * (One - accuracy))

\* (variant of WithinTolerance with a strict comparison)
StrictlyWithinTolerance(distance, tolerance) ==
    /\ ~IsNaN(distance) /\ ~IsNaN(tolerance)
    /\ distance[1] * One < tolerance[1]

\* distance <= tolerance, the distance brought to the tolerance's unit
WithinTolerance(distance, tolerance) ==
    ~IsNaN(distance) /\ FloatLe(Num(distance[1] * One), tolerance)

\* The loop of lines 564-568 from position i on; st = [min_val, min_distance].
RECURSIVE NumericScan(_, _, _, _, _)
NumericScan(match, choices, tolerance, i, st) ==
    IF i > Len(choices) THEN st
    ELSE LET num == choices[i]
             distance == Distance(match, num)
         IN  IF WithinTolerance(distance, tolerance)
                  /\ FloatLe(distance, st.min_distance)
             THEN NumericScan(match, choices, tolerance, i + 1,
                              [min_val |-> num, min_distance |-> distance])
             ELSE NumericScan(match, choices, tolerance, i + 1, st)

_numeric_fuzzy_match(match, choices, accuracy, is_absolute) ==
    NumericScan(match, choices, Tolerance(match, accuracy, is_absolute), 1,
                [min_val |-> NaN, min_distance |-> Num(Inf)]).min_val

(***************************************************************************)
(* Harness of the numeric matcher: the arguments are drawn in the initial  *)
(* state and the call is one step.                                         *)
(***************************************************************************)
NumericValues == {-1000, -900, 900, 1000, 1040, 1100}
NumericCells == {Num(n) : n \in NumericValues} \cup {NaN}
AccuracyValues == {0, 50, 90, 95, 100}

\* Sequences without repetition (the result of Series.unique()) of length <= n
RECURSIVE UniqueSeqs(_, _)
UniqueSeqs(S, n) ==
    IF n = 0 THEN {<<>>}
    ELSE LET shorter == UniqueSeqs(S, n - 1)
         IN  shorter \cup
             {Append(s, x) : <<s, x>> \in
                 {<<s, x>> \in shorter \X S :
                     /\ Len(s) = n - 1
                     /\ \A i \in 1..Len(s) : s[i] # x}}

InitNumeric ==
    /\ pc = "numeric_call"
    /\ call \in [match : NumericCells,
                 choices : UniqueSeqs(NumericCells, MaxChoices),
                 accuracy : AccuracyValues,
                 is_absolute : BOOLEAN]
    /\ ret = NaN
    /\ NoProduce

NumericFuzzyMatch ==
    /\ pc = "numeric_call"
    /\ ret' = _numeric_fuzzy_match(call.match, call.choices, call.accuracy,
                                   call.is_absolute)
    /\ pc' = "numeric_return"
    /\ UNCHANGED <<call, produceVars>>

NextNumeric == NumericFuzzyMatch

SpecNumeric == InitNumeric /\ [][NextNumeric]_vars

(***************************************************************************)
(* Properties of the numeric matcher (under SpecNumeric).                  *)
(***************************************************************************)
Range(s) == {s[i] : i \in DOMAIN s}

\* the tolerance the call works with, in units of 1/(One*One)
CallTolerance == Tolerance(call.match, call.accuracy, call.is_absolute)

\* |v - c| <= t for numbers v, c and a tolerance t in units of 1/(One*One)
Near(v, c, t) ==
    ~IsNaN(v) /\ ~IsNaN(c) /\ ~IsNaN(t) /\ Abs(v[1] - c[1]) * One <= t[1]

\* |v - c| <= |v - c2| for numbers
NoFarther(v, c, c2) == Abs(v[1] - c[1]) <= Abs(v[1] - c2[1])

\* the candidates within tolerance of the left value
NearChoices == {c \in Range(call.choices) : Near(call.match, c, CallTolerance)}

\* C1: for a tolerance t >= 0 the numeric matcher returns a candidate that
\* lies within t of the left value and is at least as close to it as every
\* other candidate, and it returns NaN exactly when no candidate lies within t.
C1_NumericNearestWithinTolerance ==
    (pc = "numeric_return" /\ FloatLe(Num(0), CallTolerance)) =>
        /\ (ret = NaN) <=> (NearChoices = {})
        /\ ret # NaN =>
              /\ ret \in NearChoices
              /\ \A c2 \in Range(call.choices) :
                    ~IsNaN(c2) => NoFarther(call.match, ret, c2)

\* a call that returned the nearer of two candidates within tolerance
C1_Witness ==
    /\ pc = "numeric_return"
    /\ FloatLe(Num(0), CallTolerance)
    /\ ret # NaN
    /\ \E c \in NearChoices : ~NoFarther(call.match, c, ret)

\* a call in which no candidate was within a positive tolerance
C1_WitnessNoMatch ==
    /\ pc = "numeric_return"
    /\ FloatLe(Num(1), CallTolerance)
    /\ call.choices # <<>>
    /\ ret = NaN

\* positions of the candidates within tolerance at minimal distance
TiedPositions ==
    {i \in DOMAIN call.choices :
        /\ call.choices[i] \in NearChoices
        /\ \A c2 \in NearChoices : NoFarther(call.match, call.choices[i], c2)}

MinOf(S) == CHOOSE m \in S : \A x \in S : m <= x

\* C2: when several candidates within tolerance are at the same minimal
\* distance from the left value, the matcher returns the one that comes first
\* in the iteration order of the candidates.
C2_TieFirstCandidateWins ==
    (pc = "numeric_return" /\ Cardinality(TiedPositions) >= 2) =>
        ret = call.choices[MinOf(TiedPositions)]

\* C3: with is_absolute false the tolerance is |value| * (1 - accuracy), also
\* for a negative left value; a negative left value that equals a candidate is
\* matched to it for every accuracy in (0, 1].
C3_RelativeToleranceUsesMagnitude ==
    (pc = "numeric_return" /\ ~call.is_absolute /\ ~IsNaN(call.match)) =>
        /\ CallTolerance = Num(Abs(call.match[1]) * (One - call.accuracy))
        /\ (/\ call.match[1] < 0
            /\ call.match \in Range(call.choices)
            /\ call.accuracy \in 1..One) => ret = call.match

(***************************************************************************)
(* Semantic types and _get_join_semantic_type                              *)
(***************************************************************************)
Categorical == "https://metadata.datadrivendiscovery.org/types/CategoricalData"
Text == "http://schema.org/Text"
Boolean == "http://schema.org/Boolean"
Integer == "http://schema.org/Integer"
Float == "http://schema.org/Float"
FloatVector == "https://metadata.datadrivendiscovery.org/types/FloatVector"
BoundingPolygon == "https://metadata.datadrivendiscovery.org/types/BoundingPolygon"
DateTime == "http://schema.org/DateTime"
\* a semantic type outside the catalog of the primitive
Attribute == "https://metadata.datadrivendiscovery.org/types/Attribute"
\* Python's None as a returned join type
NoJoinType == "None"

_STRING_JOIN_TYPES == {Categorical, Text, Boolean}
_NUMERIC_JOIN_TYPES == {Integer, Float}
_VECTOR_JOIN_TYPES == {FloatVector}
_GEO_JOIN_TYPES == {BoundingPolygon}
_DATETIME_JOIN_TYPES == {DateTime}
_SUPPORTED_TYPES ==
    _STRING_JOIN_TYPES \cup _NUMERIC_JOIN_TYPES \cup _DATETIME_JOIN_TYPES
        \cup _VECTOR_JOIN_TYPES \cup _GEO_JOIN_TYPES

\* (variant of FallbackJoinTypes that tries the text rule first)
FallbackJoinTypesTextFirst(left_types, right_types) ==
    IF /\ left_types \cap _STRING_JOIN_TYPES # {}
       /\ right_types \cap _STRING_JOIN_TYPES # {}
    THEN {Text}
    ELSE IF /\ left_types \cap _NUMERIC_JOIN_TYPES # {}
            /\ right_types \cap _NUMERIC_JOIN_TYPES # {}
         THEN {Float}
         ELSE {}

\* lines 481-492: the join_types list when the columns share no supported type
FallbackJoinTypes(left_types, right_types) ==
    IF /\ left_types \cap _NUMERIC_JOIN_TYPES # {}
       /\ right_types \cap _NUMERIC_JOIN_TYPES # {}
    THEN {Float}
    ELSE IF /\ left_types \cap _STRING_JOIN_TYPES # {}
            /\ right_types \cap _STRING_JOIN_TYPES # {}
         THEN {Text}
         ELSE {}

\* The values _get_join_semantic_type can return for two tag sets.  The shared
\* supported types are listed from a Python set, whose iteration order is not
\* fixed between runs, and element 0 of the list is returned: every shared type
\* is a possible result.
_get_join_semantic_type(left_types, right_types) ==
    LET supported_left_types == left_types \cap _SUPPORTED_TYPES
        supported_right_types == right_types \cap _SUPPORTED_TYPES
        shared == supported_left_types \cap supported_right_types
        join_types == IF shared = {}
                      THEN FallbackJoinTypes(left_types, right_types)
                      ELSE shared
    IN  IF join_types # {} THEN join_types ELSE {NoJoinType}

(***************************************************************************)
(* Harness of the type classifier.                                         *)
(***************************************************************************)
AllTags == _SUPPORTED_TYPES \cup {Attribute}
TagSets == {T \in SUBSET AllTags : Cardinality(T) <= MaxTags}

InitClassify ==
    /\ pc = "classify_call"
    /\ call \in [left_types : TagSets, right_types : TagSets]
    /\ ret = NoJoinType
    /\ NoProduce

GetJoinSemanticType ==
    /\ pc = "classify_call"
    /\ ret' \in _get_join_semantic_type(call.left_types, call.right_types)
    /\ pc' = "classify_return"
    /\ UNCHANGED <<call, produceVars>>

NextClassify == GetJoinSemanticType

SpecClassify == InitClassify /\ [][NextClassify]_vars

\* the supported types both columns carry
SharedSupported == call.left_types \cap call.right_types \cap _SUPPORTED_TYPES
BothCarry(family) ==
    call.left_types \cap family # {} /\ call.right_types \cap family # {}

\* C7: the classifier returns a type both columns carry when their supported
\* types intersect; otherwise Float when each side has an Integer or Float tag;
\* otherwise Text when each side has a Text, Categorical or Boolean tag;
\* otherwise it reports no type.  The numeric fallback goes first.
C7_ClassifierRules ==
    pc = "classify_return" =>
        IF SharedSupported # {}
        THEN ret \in call.left_types /\ ret \in call.right_types
        ELSE IF BothCarry({Integer, Float}) THEN ret = Float
        ELSE IF BothCarry({Text, Categorical, Boolean}) THEN ret = Text
        ELSE ret = NoJoinType

\* a classification in which both fallback rules applied
C7_Witness ==
    /\ pc = "classify_return"
    /\ SharedSupported = {}
    /\ BothCarry({Integer, Float})
    /\ BothCarry({Text, Categorical, Boolean})
    /\ ret = Float

(***************************************************************************)
(* _string_fuzzy_match and _create_string_merge_cols                       *)
(*                                                                         *)
(* The similarity of two strings is computed by the fuzzywuzzy library     *)
(* (process.extractOne with its default scorer).  The model takes the      *)
(* scores as an input table score[value][choice] with entries in 0..100    *)
(* and models extractOne by what it does with them: it returns the first   *)
(* choice, in iteration order, that attains the maximum score.             *)
(***************************************************************************)
\* Series.unique(): the distinct values in order of first occurrence
RECURSIVE Unique(_)
Unique(cells) ==
    IF cells = <<>> THEN <<>>
    ELSE LET n == Len(cells)
             front == Unique(SubSeq(cells, 1, n - 1))
         IN  IF \E i \in 1..(n - 1) : cells[i] = cells[n]
             THEN front ELSE Append(front, cells[n])

\* (variant of ExtractOne that keeps the last choice attaining the maximum)
ExtractOneLast(match, choices, score) ==
    LET best == CHOOSE i \in DOMAIN choices :
                    /\ \A j \in DOMAIN choices :
                          score[match][choices[j]] <= score[match][choices[i]]
                    /\ \A j \in DOMAIN choices :
                          score[match][choices[j]] = score[match][choices[i]]
                              => j <= i
    IN  [choice |-> choices[best], score |-> score[match][choices[best]]]

\* process.extractOne(match, choices) for a non-empty choices: max() over the
\* scored choices keeps the first one that attains the maximum
ExtractOne(match, choices, score) ==
    LET best == CHOOSE i \in DOMAIN choices :
                    /\ \A j \in DOMAIN choices :
                          score[match][choices[j]] <= score[match][choices[i]]
                    /\ \A j \in DOMAIN choices :
                          score[match][choices[j]] = score[match][choices[i]]
                              => i <= j
    IN  [choice |-> choices[best], score |-> score[match][choices[best]]]

_string_fuzzy_match(match, choices, min_score, score) ==
    LET one == ExtractOne(match, choices, score)
    IN  IF one.score >= min_score THEN one.choice ELSE None

\* (variant of UsesFuzzyStringMatch that also takes accuracy 1.0 as fuzzy)
UsesFuzzyStringMatchAtOne(accuracy) == accuracy <= One

\* line 535: if accuracy < 1
UsesFuzzyStringMatch(accuracy) == accuracy < One

\* accuracy * 100, the score a match has to reach
MinScore(accuracy) == (accuracy * 100) \div One

\* The cells of the column "lefty_string<index>" built from the left and the
\* right key column.
_create_string_merge_cols(left_cells, right_cells, accuracy, score) ==
    IF UsesFuzzyStringMatch(accuracy)
    THEN LET left_keys == Unique(left_cells)
             right_keys == Unique(right_cells)
             matches == [k \in Range(left_keys) |->
                            _string_fuzzy_match(k, right_keys,
                                                MinScore(accuracy), score)]
         IN  [i \in DOMAIN left_cells |-> matches[left_cells[i]]]
    ELSE left_cells

(***************************************************************************)
(* Harness of the string key builder.                                      *)
(***************************************************************************)
StringValues == {1, 2}
StringCells == {Num(v) : v \in StringValues}
ScoreValues == {50, 80, 100}
StringAccuracyValues == {80, 90, 100}

\* the non-empty columns of at most n cells drawn from S
Columns(S, n) == UNION {[1..k -> S] : k \in 1..n}

InitString ==
    /\ pc = "string_call"
    /\ call \in [left_cells : Columns(StringCells, MaxRows),
                 right_cells : Columns(StringCells, MaxRows),
                 accuracy : StringAccuracyValues,
                 score : [StringCells -> [StringCells -> ScoreValues]]]
    /\ ret = <<>>
    /\ NoProduce

CreateStringMergeCols ==
    /\ pc = "string_call"
    /\ ret' = _create_string_merge_cols(call.left_cells, call.right_cells,
                                        call.accuracy, call.score)
    /\ pc' = "string_return"
    /\ UNCHANGED <<call, produceVars>>

NextString == CreateStringMergeCols

SpecString == InitString /\ [][NextString]_vars

\* C5: with accuracy 1.0 the synthetic left key of every row is the row's own
\* left value, so that an equality join on the key pairs left row i with right
\* row j exactly when the two values are equal.
C5_ExactStringKeyIsLeftValue ==
    (pc = "string_return" /\ call.accuracy = One) =>
        /\ Len(ret) = Len(call.left_cells)
        /\ \A i \in DOMAIN call.left_cells :
              /\ ret[i] = call.left_cells[i]
              /\ \A j \in DOMAIN call.right_cells :
                    (ret[i] = call.right_cells[j])
                        <=> (call.left_cells[i] = call.right_cells[j])

\* an exact-match call with a left value absent from the right column although
\* the scores rate another right value at 100
C5_Witness ==
    /\ pc = "string_return"
    /\ call.accuracy = One
    /\ \E i \in DOMAIN call.left_cells :
          /\ call.left_cells[i] \notin Range(call.right_cells)
          /\ \E c \in Range(call.right_cells) :
                call.score[call.left_cells[i]][c] = 100

\* position of the first occurrence of c in the right column
FirstOccurrence(c) ==
    MinOf({j \in DOMAIN call.right_cells : call.right_cells[j] = c})

\* the right values with the maximum score for the left value v
BestScored(v) ==
    {c \in Range(call.right_cells) :
        \A c2 \in Range(call.right_cells) :
            call.score[v][c2] <= call.score[v][c]}

\* the expected key of the left value v
ExpectedStringKey(v) ==
    LET c == CHOOSE b \in BestScored(v) :
                 \A b2 \in BestScored(v) : FirstOccurrence(b) <= FirstOccurrence(b2)
    IN  IF call.score[v][c] * One >= call.accuracy * 100 THEN c ELSE None

\* C6: with accuracy < 1.0 (and a right column that is not empty) each left
\* value is mapped to the right value of maximum score when that score is
\* >= accuracy * 100 and to None otherwise; among right values of equal maximum
\* score the one occurring first in the right column is taken; rows with the
\* same left value get the same key.
C6_FuzzyStringKeyIsBestScored ==
    (pc = "string_return" /\ call.accuracy < One) =>
        /\ Len(ret) = Len(call.left_cells)
        /\ \A i \in DOMAIN call.left_cells :
              ret[i] = ExpectedStringKey(call.left_cells[i])
        /\ \A i, j \in DOMAIN call.left_cells :
              call.left_cells[i] = call.left_cells[j] => ret[i] = ret[j]

\* a fuzzy call in which two right values tie at the maximum score, the later
\* one being the left value's own spelling, and two rows carry the left value
C6_Witness ==
    /\ pc = "string_return"
    /\ call.accuracy < One
    /\ \E i, j \in DOMAIN call.left_cells :
          /\ i # j
          /\ call.left_cells[i] = call.left_cells[j]
          /\ Cardinality(BestScored(call.left_cells[i])) >= 2
          /\ ret[i] # None
          /\ ret[i] # call.left_cells[i]

(***************************************************************************)
(* Timestamps.  A text cell is <<payload, format>>: the timestamp text     *)
(* <<t, f>> spells the instant t (a whole number of time units of the      *)
(* datetime64 values) in the notation f, and NoFormat marks a text that    *)
(* spells no timestamp and no number.  parser.parse followed by            *)
(* np.datetime64 maps the text to its instant, whatever the notation.      *)
(***************************************************************************)
NoFormat == 0
DateText(t, f) == <<t, f>>
Malformed == <<0, NoFormat>>

\* the exception of np.datetime64(parser.parse(dt)): parse wants a text
ParseError(dt) ==
    IF Len(dt) # 2 THEN "TypeError"
    ELSE IF dt[2] = NoFormat THEN "ParserError"
    ELSE "none"

\* np.datetime64(parser.parse(dt)) of a timestamp text
Parse(dt) == dt[1]

MaxOf(S) == CHOOSE m \in S : \A x \in S : x <= m

\* np.unique: the distinct values in ascending order
RECURSIVE SortSet(_)
SortSet(S) ==
    IF S = {} THEN <<>>
    ELSE LET m == MinOf(S) IN <<m>> \o SortSet(S \ {m})

NpUnique(values) == SortSet({values[i] : i \in DOMAIN values})

\* (variant of _compute_time_range that takes the wider of the two spans)
WiderTimeRange(left_keys, right_keys) ==
    LET left_delta == MaxOf(Range(left_keys)) - MinOf(Range(left_keys))
        right_delta == MaxOf(Range(right_keys)) - MinOf(Range(right_keys))
    IN  IF left_delta >= right_delta THEN left_delta ELSE right_delta

\* lines 823-834
_compute_time_range(left_keys, right_keys) ==
    LET left_delta == MaxOf(Range(left_keys)) - MinOf(Range(left_keys))
        right_delta == MaxOf(Range(right_keys)) - MinOf(Range(right_keys))
    IN  IF left_delta <= right_delta THEN left_delta ELSE right_delta

\* the whole number nearest to n / d between it and zero
Trunc(n, d) == IF n >= 0 THEN n \div d ELSE -((-n) \div d)

\* line 790: the product of a float and a timedelta64 is a timedelta64, a
\* whole number of time units; the fraction of a unit is cut off
TimeTolerance(accuracy, time_range) == Trunc((One - accuracy) * time_range, One)

\* (variant of CloserThan that also takes a candidate at the same distance)
NoFartherThan(distance, min_distance) ==
    min_distance = None \/ distance <= min_distance[1]

\* line 816: min_distance is None or distance < min_distance
CloserThan(distance, min_distance) ==
    min_distance = None \/ distance < min_distance[1]

\* The loop of lines 813-819 from position i on; st = [min_date, min_distance].
RECURSIVE DatetimeScan(_, _, _, _, _)
DatetimeScan(match, choices, tolerance, i, st) ==
    IF i > Len(choices) THEN st
    ELSE LET date == choices[i]
             distance == Abs(match - date)
         IN  IF distance <= tolerance /\ CloserThan(distance, st.min_distance)
             THEN DatetimeScan(match, choices, tolerance, i + 1,
                               [min_date |-> Num(date),
                                min_distance |-> Num(distance)])
             ELSE DatetimeScan(match, choices, tolerance, i + 1, st)

_datetime_fuzzy_match(match, choices, tolerance) ==
    DatetimeScan(match, choices, tolerance, 1,
                 [min_date |-> None, min_distance |-> None]).min_date

\* the exception _create_datetime_merge_cols ends in: the right column is
\* parsed first (line 782), then the left one (line 788); np.amin of line 826
\* or 830 raises ValueError on a table without rows
DatetimeColsError(left_cells, right_cells) ==
    LET RightBad == {i \in DOMAIN right_cells : ParseError(right_cells[i]) # "none"}
        LeftBad == {i \in DOMAIN left_cells : ParseError(left_cells[i]) # "none"}
    IN  IF RightBad # {} THEN ParseError(right_cells[MinOf(RightBad)])
        ELSE IF LeftBad # {} THEN ParseError(left_cells[MinOf(LeftBad)])
        ELSE IF left_cells = <<>> \/ right_cells = <<>> THEN "ValueError"
        ELSE "none"

\* lines 777-802: the cells of "lefty_datetime<index>" and of
\* "righty_datetime<index>", and the tolerance that was used
_create_datetime_merge_cols(left_cells, right_cells, accuracy) ==
    LET right_keys == [i \in DOMAIN right_cells |-> Parse(right_cells[i])]
        choices == NpUnique(right_keys)
        left_keys == [i \in DOMAIN left_cells |-> Parse(left_cells[i])]
        time_tolerance ==
            TimeTolerance(accuracy, _compute_time_range(left_keys, choices))
    IN  [new_left |-> [i \in DOMAIN left_keys |->
                          _datetime_fuzzy_match(left_keys[i], choices,
                                                time_tolerance)],
         new_right |-> [i \in DOMAIN right_keys |-> Num(right_keys[i])],
         time_tolerance |-> time_tolerance]

(***************************************************************************)
(* Harness of _create_datetime_merge_cols.                                 *)
(***************************************************************************)
Instants == {0, 10, 20, 40}
DatetimeCells == {DateText(t, 1) : t \in Instants} \cup {DateText(10, 2)}
DatetimeAccuracyValues == {50, 65, 100}

InitDatetime ==
    /\ pc = "datetime_call"
    /\ call \in [left_cells : Columns(DatetimeCells, MaxRows),
                 right_cells : Columns(DatetimeCells, MaxRows),
                 accuracy : DatetimeAccuracyValues]
    /\ ret = <<>>
    /\ NoProduce

CreateDatetimeMergeCols ==
    /\ pc = "datetime_call"
    /\ ret' = _create_datetime_merge_cols(call.left_cells, call.right_cells,
                                          call.accuracy)
    /\ pc' = "datetime_return"
    /\ UNCHANGED <<call, produceVars>>

NextDatetime == CreateDatetimeMergeCols

SpecDatetime == InitDatetime /\ [][NextDatetime]_vars

(***************************************************************************)
(* Properties of the datetime matcher (under SpecDatetime).                *)
(***************************************************************************)
LeftInstants == [i \in DOMAIN call.left_cells |-> Parse(call.left_cells[i])]
RightInstants == [i \in DOMAIN call.right_cells |-> Parse(call.right_cells[i])]

SpanOf(instants) == MaxOf(Range(instants)) - MinOf(Range(instants))
MinSpan ==
    IF SpanOf(LeftInstants) <= SpanOf(RightInstants)
    THEN SpanOf(LeftInstants) ELSE SpanOf(RightInstants)

\* the time differences that can occur between two instants of a call, and
\* of a call with doubled offsets
Differences == 0..(2 * MaxOf(Instants))

\* the call with every offset from the origin 0 doubled
Doubled(cells) == [i \in DOMAIN cells |-> DateText(2 * cells[i][1], cells[i][2])]
DoubledReturn ==
    _create_datetime_merge_cols(Doubled(call.left_cells),
                                Doubled(call.right_cells), call.accuracy)

\* the right rows whose instant is the key of left row i
MatchedRows(keys, right_keys, i) ==
    {j \in DOMAIN right_keys : keys[i] # None /\ keys[i] = right_keys[j]}

DatetimeChoices == NpUnique(RightInstants)
NearInstants(m) ==
    {k \in DOMAIN DatetimeChoices :
        Abs(m - DatetimeChoices[k]) <= ret.time_tolerance}
NearestInstants(m) ==
    {k \in NearInstants(m) :
        \A k2 \in NearInstants(m) :
            Abs(m - DatetimeChoices[k]) <= Abs(m - DatetimeChoices[k2])}

\* C13: every left timestamp gets the right timestamp of the deduplicated
\* right set at the smallest absolute difference among those with a
\* difference <= tolerance, the first of them in iteration order when several
\* are at that difference, and no match when none is within tolerance.
C13_DatetimeNearestFirstWins ==
    pc = "datetime_return" =>
        \A i \in DOMAIN call.left_cells :
            LET m == LeftInstants[i]
            IN  IF NearInstants(m) = {} THEN ret.new_left[i] = None
                ELSE ret.new_left[i]
                        = Num(DatetimeChoices[MinOf(NearestInstants(m))])

\* a call in which two right timestamps are at the same smallest difference
\* within the tolerance of a left one, and another left one has no match
C13_Witness ==
    /\ pc = "datetime_return"
    /\ \E i \in DOMAIN call.left_cells :
          /\ Cardinality(NearestInstants(LeftInstants[i])) >= 2
          /\ ret.new_left[i] # None
    /\ \E i \in DOMAIN call.left_cells : ret.new_left[i] = None

(***************************************************************************)
(* _geo_fuzzy_match.  A point is a cell <<p>>; the haversine distance in   *)
(* meters from the value to match to the point p is distance[p], an input  *)
(* of the model.  The result records the number of candidates the loop     *)
(* looked at.                                                              *)
(***************************************************************************)
\* The loop of lines 579-583 from position i on; st = [min_val, min_distance].
RECURSIVE GeoScan(_, _, _, _, _)
GeoScan(choices, accuracy, distance, i, st) ==
    IF i > Len(choices) THEN st
    ELSE LET point == choices[i]
             d == Num(distance[point[1]])
         IN  IF FloatLe(d, Num(accuracy)) /\ FloatLe(d, st.min_distance)
             THEN GeoScan(choices, accuracy, distance, i + 1,
                          [min_val |-> point, min_distance |-> d])
             ELSE GeoScan(choices, accuracy, distance, i + 1, st)

\* lines 571-584: [error, min_val, examined]
_geo_fuzzy_match(choices, accuracy, is_absolute, distance) ==
    IF ~is_absolute
    THEN [error |-> "InvalidArgumentTypeError", min_val |-> None, examined |-> 0]
    ELSE [error |-> "none",
          min_val |-> GeoScan(choices, accuracy, distance, 1,
                              [min_val |-> None,
                               min_distance |-> Num(Inf)]).min_val,
          examined |-> Len(choices)]

(***************************************************************************)
(* Harness of the geo matcher.                                             *)
(***************************************************************************)
PointIds == {1, 2, 3}
PointCells == {Num(p) : p \in PointIds}
MeterValues == {0, 100, 200}
GeoAccuracyValues == {100, 150}

InitGeo ==
    /\ pc = "geo_call"
    /\ call \in [choices : UNION {[1..k -> PointCells] : k \in 0..MaxChoices},
                 distance : [PointIds -> MeterValues],
                 accuracy : GeoAccuracyValues,
                 is_absolute : BOOLEAN]
    /\ ret = <<>>
    /\ NoProduce

GeoFuzzyMatch ==
    /\ pc = "geo_call"
    /\ ret' = _geo_fuzzy_match(call.choices, call.accuracy, call.is_absolute,
                               call.distance)
    /\ pc' = "geo_return"
    /\ UNCHANGED <<call, produceVars>>

NextGeo == GeoFuzzyMatch

SpecGeo == InitGeo /\ [][NextGeo]_vars

(***************************************************************************)
(* Properties of the geo matcher (under SpecGeo).                          *)
(***************************************************************************)
NearPoints ==
    {k \in DOMAIN call.choices :
        call.distance[call.choices[k][1]] <= call.accuracy}
NearestPoints ==
    {k \in NearPoints :
        \A k2 \in NearPoints :
            call.distance[call.choices[k][1]] <= call.distance[call.choices[k2][1]]}

\* C14: without is_absolute the geo matcher fails with an invalid-argument
\* error and looks at no candidate; with is_absolute it returns the candidate
\* at the smallest distance among those within accuracy meters, the first of
\* them in iteration order when several are at that distance, and no match
\* when no candidate is within accuracy meters.
C14_GeoMatcherFirstWins ==
    pc = "geo_return" =>
        IF ~call.is_absolute
        THEN ret.error = "InvalidArgumentTypeError" /\ ret.examined = 0
        ELSE /\ ret.error = "none"
             /\ IF NearPoints = {} THEN ret.min_val = None
                ELSE ret.min_val = call.choices[MinOf(NearestPoints)]

(***************************************************************************)
(* Python values of the hyperparameters.  A value carries its Python type, *)
(* which produce tests with type(): [kind |-> "float", val |-> 95],        *)
(* [kind |-> "tuple", val |-> <<...>>] with elements of the same shape.    *)
(***************************************************************************)
PyFloat(x) == [kind |-> "float", val |-> x]
PyBool(b) == [kind |-> "bool", val |-> b]
PyStr(n) == [kind |-> "str", val |-> n]
PyTuple(elems) == [kind |-> "tuple", val |-> elems]
PyList(elems) == [kind |-> "list", val |-> elems]

IsSequenceKind(x) == x.kind \in {"tuple", "list"}

\* bool(x)
Truthy(x) == IF x.kind = "bool" THEN x.val ELSE Len(x.val) > 0

\* the exception raised by x[i] (i counted from 0), "none" when x[i] exists
SubscriptError(x, i) ==
    IF ~IsSequenceKind(x) THEN "TypeError"
    ELSE IF i + 1 > Len(x.val) THEN "IndexError"
    ELSE "none"

\* x[i] (i counted from 0)
Subscript(x, i) == x.val[i + 1]

(***************************************************************************)
(* Data frames: a sequence of columns [name, cells], all of one length.    *)
(* A dataset is [df, metadata], the metadata listing the semantic types of *)
(* the columns.                                                            *)
(***************************************************************************)
HasColumn(df, name) == \E i \in DOMAIN df : df[i].name = name
Cells(df, name) == df[CHOOSE i \in DOMAIN df : df[i].name = name].cells
NumRows(df) == IF df = <<>> THEN 0 ELSE Len(df[1].cells)

\* df[name] = cells
SetColumn(df, name, cells) ==
    IF HasColumn(df, name)
    THEN [i \in DOMAIN df |->
             IF df[i].name = name THEN [name |-> name, cells |-> cells]
             ELSE df[i]]
    ELSE Append(df, [name |-> name, cells |-> cells])

\* df.rename(columns={old: new}, inplace=True)
RenameColumn(df, old, new) ==
    [i \in DOMAIN df |->
        IF df[i].name = old THEN [name |-> new, cells |-> df[i].cells]
        ELSE df[i]]

\* df.drop(columns=names, inplace=True), every name being a column of df
DropColumns(df, names) ==
    LET Kept(c) == c.name \notin Range(names)
    IN  SelectSeq(df, Kept)

\* _get_column_semantic_type: the tags of the first column of that name
_get_column_semantic_type(dataset, col_name) ==
    IF \E i \in DOMAIN dataset.metadata : dataset.metadata[i].name = col_name
    THEN LET first == MinOf({i \in DOMAIN dataset.metadata :
                                dataset.metadata[i].name = col_name})
         IN  dataset.metadata[first].semantic_types
    ELSE {}

(***************************************************************************)
(* _create_numeric_merge_cols: the cells of "lefty_numeric<index>"         *)
(*                                                                         *)
(* A cell of a numeric column is a float <<n>>, a missing value, or a text *)
(* <<n, f>> (the number n spelled out, or no number at all for NoFormat).  *)
(* pd.to_numeric turns the left texts into floats; the right cells are     *)
(* taken as they are.                                                      *)
(***************************************************************************)
IsText(cell) == Len(cell) = 2

\* pd.to_numeric of one cell
ToNumeric(cell) == IF IsText(cell) THEN Num(cell[1]) ELSE cell

\* the exception of lines 597-607 on the cells: pd.to_numeric raises
\* ValueError on a text that is no number, and abs(match - num) of line 565
\* raises TypeError on a right cell that is a text
CoercionError(left_cells, right_cells) ==
    IF \E i \in DOMAIN left_cells :
          IsText(left_cells[i]) /\ left_cells[i][2] = NoFormat
    THEN "ValueError"
    ELSE IF left_cells # <<>> /\ \E j \in DOMAIN right_cells : IsText(right_cells[j])
    THEN "TypeError"
    ELSE "none"

_create_numeric_merge_cols(left_cells, right_cells, accuracy, is_absolute) ==
    LET choices == Unique(right_cells)
    IN  [i \in DOMAIN left_cells |->
            _numeric_fuzzy_match(ToNumeric(left_cells[i]), choices, accuracy,
                                 is_absolute)]

(***************************************************************************)
(* _create_vector_merging_cols.  A cell of a vector column is a numpy      *)
(* array, the tuple of its components <<<<c1>>, ..., <<ck>>>>.  The result *)
(* is, for each side, the sequence of the cells of its k new columns.      *)
(***************************************************************************)
\* the column of the components at position i
ComponentColumn(cells, i) == [r \in DOMAIN cells |-> cells[r][i]]

\* (variant of ComponentChoices that takes the first components throughout)
FirstComponentChoices(new_right, i) == new_right[1]

\* line 757: the candidates of the components at position i
ComponentChoices(new_right, i) == new_right[i]

\* lines 719-762, for columns of numpy arrays
_create_vector_merging_cols(left_cells, right_cells, accuracy, is_absolute) ==
    LET left_vector_length == Len(left_cells[1])
        right_vector_length == Len(right_cells[1])
        new_left == [i \in 1..left_vector_length |->
                        ComponentColumn(left_cells, i)]
        new_right == [i \in 1..right_vector_length |->
                         ComponentColumn(right_cells, i)]
    IN  [new_left |->
            [i \in 1..left_vector_length |->
                [r \in DOMAIN left_cells |->
                    _numeric_fuzzy_match(new_left[i][r],
                                         ComponentChoices(new_right, i),
                                         accuracy, is_absolute)]],
         new_right |-> new_right]

\* line 757: new_right_cols[i] does not exist for a left vector that is
\* longer than the right one
VectorColsError(left_cells, right_cells) ==
    IF Len(left_cells[1]) > Len(right_cells[1]) THEN "IndexError" ELSE "none"

\* lines 720-723, 744-747: the names of the new columns
VectorColumnNames(prefix, index, vector_length) ==
    [i \in 1..vector_length |->
        prefix \o ToString(index) \o "_" \o ToString(i - 1)]

(***************************************************************************)
(* pd.merge(left_df, right_df, how, left_on, right_on, suffixes)           *)
(*                                                                         *)
(* A row of the result is a pair <<i, j>> of a left and a right row        *)
(* number, 0 standing for the missing side.  pandas compares the key       *)
(* columns position by position and takes two missing keys (NaN, None) as  *)
(* equal.  Rows come in left order (right order for how = "right"); for    *)
(* how = "outer" the rows without a left partner are put last.             *)
(***************************************************************************)
KeyOfRow(df, on, i) == [k \in DOMAIN on |-> Cells(df, on[k])[i]]

RECURSIVE Flatten(_)
Flatten(seqs) == IF seqs = <<>> THEN <<>> ELSE Head(seqs) \o Flatten(Tail(seqs))

\* (variant of KeysEqual in which a missing key equals nothing, as in SQL)
KeysEqualNotNull(lkey, rkey) ==
    lkey = rkey /\ \A k \in DOMAIN lkey : lkey[k] # NaN

\* the equality of two composite keys
KeysEqual(lkey, rkey) == lkey = rkey

MergeRows(left_df, right_df, how, left_on, right_on) ==
    LET L == NumRows(left_df)
        R == NumRows(right_df)
        Paired(i, j) == KeysEqual(KeyOfRow(left_df, left_on, i),
                                  KeyOfRow(right_df, right_on, j))
        OfLeft(i) == LET Hit(row) == Paired(row[1], row[2])
                     IN  SelectSeq([j \in 1..R |-> <<i, j>>], Hit)
        OfRight(j) == LET Hit(row) == Paired(row[1], row[2])
                      IN  SelectSeq([i \in 1..L |-> <<i, j>>], Hit)
        OrAlone(rows, alone) == IF rows = <<>> THEN <<alone>> ELSE rows
        inner == Flatten([i \in 1..L |-> OfLeft(i)])
        leftRows == Flatten([i \in 1..L |-> OrAlone(OfLeft(i), <<i, 0>>)])
        rightRows == Flatten([j \in 1..R |-> OrAlone(OfRight(j), <<0, j>>)])
        rightOnly == Flatten([j \in 1..R |->
                        IF OfRight(j) = <<>> THEN <<<<0, j>>>> ELSE <<>>])
    IN  CASE how = "inner" -> inner
          [] how = "left" -> leftRows
          [] how = "right" -> rightRows
          [] how = "outer" -> leftRows \o rightOnly

\* the table of the merged rows: the left columns, then the right columns; a
\* name found on both sides gets the suffix of its side
MergeFrame(left_df, right_df, rows) ==
    LET Both(name) == HasColumn(left_df, name) /\ HasColumn(right_df, name)
        Side(df, side, suffix) ==
            [c \in DOMAIN df |->
                [name |-> IF Both(df[c].name) THEN df[c].name \o suffix
                          ELSE df[c].name,
                 cells |-> [r \in DOMAIN rows |->
                               IF rows[r][side] = 0 THEN NaN
                               ELSE df[c].cells[rows[r][side]]]]]
    IN  [columns |-> Side(left_df, 1, "_left") \o Side(right_df, 2, "_right"),
         rows |-> rows]

\* pd.merge raises MergeError for how = "cross" together with left_on/right_on
MergeError(how) == IF how = "cross" THEN "MergeError" ELSE "none"

(***************************************************************************)
(* FuzzyJoinPrimitive.produce, as a sequence of steps.                     *)
(*   pc = "produce"   the call has been made                               *)
(*        "classify"  the hyperparameters passed the checks                *)
(*        "build"     the loop over the column pairs                       *)
(*        "merge"     the right columns to drop are dropped                *)
(*        "assemble"  the tables are merged                                *)
(*        "done"      produce has returned ret                             *)
(*        "raised"    produce has raised error                             *)
(* left.df and right.df are the data frames get_tabular_resource hands out *)
(* of the caller's datasets: left_df and right_df of the code are these    *)
(* very objects, no copies.                                                *)
(***************************************************************************)
NewFrame ==
    [accuracy |-> <<>>, left_col |-> <<>>, right_col |-> <<>>,
     join_types |-> <<>>, col_index |-> 0, right_cols_to_drop |-> <<>>,
     new_left_cols |-> <<>>, new_right_cols |-> <<>>, joined |-> <<>>]

Raise(exception, message) ==
    /\ error' = [exception |-> exception, message |-> message]
    /\ pc' = "raised"

\* lines 236 and 246
AccuracyOutOfRange(a) == a <= 0 \/ a > One

\* lines 254-262: the exception of the test on left_col and right_col
ColumnsError(hp) ==
    IF hp.left_col.kind # hp.right_col.kind THEN "InvalidArgumentTypeError"
    ELSE IF hp.left_col.kind = "list"
            /\ Len(hp.left_col.val) # Len(hp.right_col.val)
         THEN IF hp.accuracy.kind = "list" THEN "none"
              ELSE IF ~IsSequenceKind(hp.accuracy) THEN "TypeError"
              ELSE IF Len(hp.accuracy.val) # Len(hp.left_col.val)
                   THEN "InvalidArgumentTypeError"
                   ELSE "none"
         ELSE "none"

\* lines 225-262: the exception the checks of the hyperparameters end in; the
\* raise of line 247 evaluates str(acc), a name that is not defined
ValidationError(hp) ==
    LET accuracy == hp.accuracy
        absolute_accuracy == hp.absolute_accuracy
    IN  IF accuracy.kind = "float" /\ absolute_accuracy.kind # "bool"
        THEN "InvalidArgumentValueError"
        ELSE IF accuracy.kind # "float" /\ absolute_accuracy.kind = "bool"
        THEN "InvalidArgumentValueError"
        ELSE IF accuracy.kind = "float" /\ ~Truthy(absolute_accuracy)
        THEN IF AccuracyOutOfRange(accuracy.val)
             THEN "InvalidArgumentValueError"
             ELSE ColumnsError(hp)
        ELSE IF accuracy.kind = "tuple" /\ absolute_accuracy.kind = "tuple"
        THEN IF Len(accuracy.val) # Len(absolute_accuracy.val)
             THEN "InvalidArgumentValueError"
             ELSE IF \E i \in DOMAIN accuracy.val :
                        /\ AccuracyOutOfRange(accuracy.val[i].val)
                        /\ ~absolute_accuracy.val[i].val
                  THEN "NameError"
                  ELSE ColumnsError(hp)
        ELSE ColumnsError(hp)

\* lines 209-266
Validate ==
    /\ pc = "produce"
    /\ LET e == ValidationError(hyperparams)
           wrap == hyperparams.left_col.kind = "str"
       IN  IF e # "none"
           THEN Raise(e, <<>>) /\ UNCHANGED frame
           ELSE /\ frame' = [frame EXCEPT
                      !.left_col = IF wrap THEN PyList(<<hyperparams.left_col>>)
                                   ELSE hyperparams.left_col,
                      !.right_col = IF wrap THEN PyList(<<hyperparams.right_col>>)
                                    ELSE hyperparams.right_col,
                      !.accuracy = IF wrap THEN PyList(<<hyperparams.accuracy>>)
                                   ELSE hyperparams.accuracy]
                /\ pc' = "classify"
                /\ UNCHANGED error
    /\ UNCHANGED <<self, call, ret, hyperparams, left, right>>

\* the lists that have at each position one element of the set given for it
RECURSIVE ListsOver(_)
ListsOver(sets) ==
    IF sets = <<>> THEN {<<>>}
    ELSE {Append(front, last) :
            front \in ListsOver(SubSeq(sets, 1, Len(sets) - 1)),
            last \in sets[Len(sets)]}

\* lines 268-278
Classify ==
    /\ pc = "classify"
    /\ LET n == Len(frame.left_col.val)
       IN  IF Len(frame.right_col.val) < n
           THEN Raise("IndexError", <<>>) /\ UNCHANGED frame
           ELSE /\ \E jts \in ListsOver(
                        [i \in 1..n |->
                            _get_join_semantic_type(
                                _get_column_semantic_type(
                                    left, frame.left_col.val[i].val),
                                _get_column_semantic_type(
                                    right, frame.right_col.val[i].val))]) :
                     frame' = [frame EXCEPT !.join_types = jts]
                /\ pc' = "build"
                /\ UNCHANGED error
    /\ UNCHANGED <<self, call, ret, hyperparams, left, right>>

\* (variant of Branch whose fourth test is on the geo types)
BranchOnGeoTypes(join_type) ==
    IF join_type \in _STRING_JOIN_TYPES THEN "string"
    ELSE IF join_type \in _NUMERIC_JOIN_TYPES THEN "numeric"
    ELSE IF join_type \in _VECTOR_JOIN_TYPES THEN "vector"
    ELSE IF join_type \in _GEO_JOIN_TYPES THEN "geo_vector"
    ELSE IF join_type \in _DATETIME_JOIN_TYPES THEN "datetime"
    ELSE "unsupported"

\* the chain of tests of lines 286-363 on the join type of a column pair (the
\* fourth test repeats the third)
Branch(join_type) ==
    IF join_type \in _STRING_JOIN_TYPES THEN "string"
    ELSE IF join_type \in _NUMERIC_JOIN_TYPES THEN "numeric"
    ELSE IF join_type \in _VECTOR_JOIN_TYPES THEN "vector"
    ELSE IF join_type \in _VECTOR_JOIN_TYPES THEN "geo_vector"
    ELSE IF join_type \in _DATETIME_JOIN_TYPES THEN "datetime"
    ELSE "unsupported"

InLoop(branch) ==
    /\ pc = "build"
    /\ frame.col_index < Len(frame.left_col.val)
    /\ Branch(frame.join_types[frame.col_index + 1]) = branch

LeftColName == frame.left_col.val[frame.col_index + 1].val
RightColName == frame.right_col.val[frame.col_index + 1].val

\* the exception of evaluating the arguments of a matcher call: accuracy
\* [col_index], then (with_absolute) absolute_accuracy[col_index], then the use
\* of the accuracy as a number
ArgumentsError(with_absolute) ==
    LET i == frame.col_index
        no_column == ~HasColumn(left.df, LeftColName)
                        \/ ~HasColumn(right.df, RightColName)
    IN  IF SubscriptError(frame.accuracy, i) # "none"
        THEN SubscriptError(frame.accuracy, i)
        ELSE IF with_absolute
                /\ SubscriptError(hyperparams.absolute_accuracy, i) # "none"
        THEN SubscriptError(hyperparams.absolute_accuracy, i)
        ELSE IF with_absolute /\ no_column THEN "KeyError"
        ELSE IF Subscript(frame.accuracy, i).kind # "float" THEN "TypeError"
        ELSE IF no_column THEN "KeyError"
        ELSE "none"

\* lines 295-301, 312-318: the new column enters left_df, the right key column
\* is renamed, both names are recorded
KeyColumnBuilt(left_name, right_name, cells) ==
    /\ left' = [left EXCEPT !.df = SetColumn(left.df, left_name, cells)]
    /\ right' = [right EXCEPT
                    !.df = RenameColumn(right.df, RightColName, right_name)]
    /\ frame' = [frame EXCEPT
                    !.new_left_cols = Append(@, left_name),
                    !.new_right_cols = Append(@, right_name),
                    !.col_index = @ + 1]
    /\ UNCHANGED <<pc, error>>

\* lines 286-301
BuildStringKey ==
    /\ InLoop("string")
    /\ LET e == ArgumentsError(FALSE)
           index == ToString(frame.col_index)
       IN  IF e # "none"
           THEN Raise(e, <<>>) /\ UNCHANGED <<left, right, frame>>
           ELSE KeyColumnBuilt(
                    "lefty_string" \o index, "righty_string" \o index,
                    _create_string_merge_cols(
                        Cells(left.df, LeftColName),
                        Cells(right.df, RightColName),
                        Subscript(frame.accuracy, frame.col_index).val,
                        call.score))
    /\ UNCHANGED <<self, call, ret, hyperparams>>

\* the exception of the numeric branch: pd.to_numeric of line 601 runs after
\* the columns are looked up and before the accuracy is used as a number
NumericKeyError ==
    LET i == frame.col_index
        e == ArgumentsError(TRUE)
        accuracy_use == /\ e = "TypeError"
                        /\ SubscriptError(frame.accuracy, i) = "none"
                        /\ SubscriptError(hyperparams.absolute_accuracy, i) = "none"
    IN  IF e # "none" /\ ~accuracy_use THEN e
        ELSE LET coercion == CoercionError(Cells(left.df, LeftColName),
                                           Cells(right.df, RightColName))
             IN  IF coercion = "ValueError" THEN coercion
                 ELSE IF e # "none" THEN e
                 ELSE coercion

\* lines 302-318
BuildNumericKey ==
    /\ InLoop("numeric")
    /\ LET e == NumericKeyError
           index == ToString(frame.col_index)
       IN  IF e # "none"
           THEN Raise(e, <<>>) /\ UNCHANGED <<left, right, frame>>
           ELSE KeyColumnBuilt(
                    "lefty_numeric" \o index, "righty_numeric" \o index,
                    _create_numeric_merge_cols(
                        Cells(left.df, LeftColName),
                        Cells(right.df, RightColName),
                        Subscript(frame.accuracy, frame.col_index).val,
                        Truthy(Subscript(hyperparams.absolute_accuracy,
                                         frame.col_index))))
    /\ UNCHANGED <<self, call, ret, hyperparams>>

\* df[names] = columns, names that df does not have yet
AddColumns(df, names, columns) ==
    df \o [i \in DOMAIN names |-> [name |-> names[i], cells |-> columns[i]]]

\* the exception of the vector branch
VectorKeyError ==
    IF ArgumentsError(TRUE) # "none" THEN ArgumentsError(TRUE)
    ELSE VectorColsError(Cells(left.df, LeftColName),
                         Cells(right.df, RightColName))

\* lines 319-333
BuildVectorKey ==
    /\ InLoop("vector")
    /\ LET e == VectorKeyError
       IN  IF e # "none"
           THEN Raise(e, <<>>) /\ UNCHANGED <<left, right, frame>>
           ELSE LET new == _create_vector_merging_cols(
                               Cells(left.df, LeftColName),
                               Cells(right.df, RightColName),
                               Subscript(frame.accuracy, frame.col_index).val,
                               Truthy(Subscript(hyperparams.absolute_accuracy,
                                                frame.col_index)))
                    left_names == VectorColumnNames(
                        "lefty_vector", frame.col_index, Len(new.new_left))
                    right_names == VectorColumnNames(
                        "righty_vector", frame.col_index, Len(new.new_right))
                IN  /\ left' = [left EXCEPT
                            !.df = AddColumns(@, left_names, new.new_left)]
                    /\ right' = [right EXCEPT
                            !.df = AddColumns(@, right_names, new.new_right)]
                    /\ frame' = [frame EXCEPT
                            !.new_left_cols = @ \o left_names,
                            !.new_right_cols = @ \o right_names,
                            !.right_cols_to_drop = Append(@, RightColName),
                            !.col_index = @ + 1]
                    /\ UNCHANGED <<pc, error>>
    /\ UNCHANGED <<self, call, ret, hyperparams>>

\* the exception of the datetime branch: accuracy[col_index], then the right
\* column is looked up and parsed, then the left one, then 1.0 - accuracy
DatetimeKeyError ==
    LET i == frame.col_index
    IN  IF SubscriptError(frame.accuracy, i) # "none"
        THEN SubscriptError(frame.accuracy, i)
        ELSE IF ~HasColumn(right.df, RightColName) THEN "KeyError"
        ELSE LET right_cells == Cells(right.df, RightColName)
             IN  IF DatetimeColsError(<<>>, right_cells) \notin {"none", "ValueError"}
                 THEN DatetimeColsError(<<>>, right_cells)
                 ELSE IF ~HasColumn(left.df, LeftColName) THEN "KeyError"
                 ELSE IF Subscript(frame.accuracy, i).kind # "float"
                         /\ DatetimeColsError(Cells(left.df, LeftColName),
                                              right_cells)
                                \in {"none", "ValueError"}
                 THEN "TypeError"
                 ELSE DatetimeColsError(Cells(left.df, LeftColName), right_cells)

\* lines 349-362
BuildDatetimeKey ==
    /\ InLoop("datetime")
    /\ LET e == DatetimeKeyError
           index == ToString(frame.col_index)
       IN  IF e # "none"
           THEN Raise(e, <<>>) /\ UNCHANGED <<left, right, frame>>
           ELSE LET new == _create_datetime_merge_cols(
                               Cells(left.df, LeftColName),
                               Cells(right.df, RightColName),
                               Subscript(frame.accuracy, frame.col_index).val)
                    left_name == "lefty_datetime" \o index
                    right_name == "righty_datetime" \o index
                IN  /\ left' = [left EXCEPT
                            !.df = SetColumn(@, left_name, new.new_left)]
                    /\ right' = [right EXCEPT
                            !.df = SetColumn(@, right_name, new.new_right)]
                    /\ frame' = [frame EXCEPT
                            !.new_left_cols = Append(@, left_name),
                            !.new_right_cols = Append(@, right_name),
                            !.right_cols_to_drop = Append(@, RightColName),
                            !.col_index = @ + 1]
                    /\ UNCHANGED <<pc, error>>
    /\ UNCHANGED <<self, call, ret, hyperparams>>

\* lines 363-366
RaiseUnsupported ==
    /\ InLoop("unsupported")
    /\ Raise("InvalidArgumentValueError",
             <<"join not surpported on type ",
               frame.join_types[frame.col_index + 1]>>)
    /\ UNCHANGED <<self, call, ret, hyperparams, left, right, frame>>

\* (variant of RightColsToDrop that leaves the d3mIndex column in place)
RightColsToDropButIndex(right_df, right_cols_to_drop) == right_cols_to_drop

\* lines 368-369
RightColsToDrop(right_df, right_cols_to_drop) ==
    IF HasColumn(right_df, "d3mIndex")
    THEN Append(right_cols_to_drop, "d3mIndex")
    ELSE right_cols_to_drop

\* lines 368-370
DropRightColumns ==
    /\ pc = "build"
    /\ frame.col_index = Len(frame.left_col.val)
    /\ LET to_drop == RightColsToDrop(right.df, frame.right_cols_to_drop)
       IN  /\ frame' = [frame EXCEPT !.right_cols_to_drop = to_drop]
           /\ right' = [right EXCEPT !.df = DropColumns(right.df, to_drop)]
    /\ pc' = "merge"
    /\ UNCHANGED <<self, call, ret, error, hyperparams, left>>

\* pd.merge raises ValueError for key lists of different lengths
MergeKeysError(how, left_on, right_on) ==
    IF MergeError(how) # "none" THEN MergeError(how)
    ELSE IF Len(left_on) # Len(right_on) THEN "ValueError"
    ELSE "none"

\* lines 372-379
Merge ==
    /\ pc = "merge"
    /\ LET how == hyperparams.join_type
           e == MergeKeysError(how, frame.new_left_cols, frame.new_right_cols)
       IN  IF e # "none"
           THEN Raise(e, <<>>) /\ UNCHANGED frame
           ELSE /\ frame' = [frame EXCEPT !.joined =
                      MergeFrame(left.df, right.df,
                                 MergeRows(left.df, right.df, how,
                                           frame.new_left_cols,
                                           frame.new_right_cols))]
                /\ pc' = "assemble"
                /\ UNCHANGED error
    /\ UNCHANGED <<self, call, ret, hyperparams, left, right>>

\* (variant of MergeColumns that names the right key columns only)
RightMergeColumns(new_left_cols, new_right_cols) == new_right_cols

\* line 383: the columns that were created for merging
MergeColumns(new_left_cols, new_right_cols) == new_left_cols \o new_right_cols

\* lines 383-424: the key columns are dropped and the table is put into the
\* result dataset; joined[column][0] of line 392 needs a row 0
Assemble ==
    /\ pc = "assemble"
    /\ LET columns == DropColumns(frame.joined.columns,
                                  MergeColumns(frame.new_left_cols,
                                               frame.new_right_cols))
           table == [columns |-> columns, rows |-> frame.joined.rows]
       IN  IF columns # <<>> /\ frame.joined.rows = <<>>
           THEN /\ Raise("KeyError", <<>>)
                /\ frame' = [frame EXCEPT !.joined = table]
                /\ UNCHANGED ret
           ELSE /\ frame' = [frame EXCEPT !.joined = table]
                /\ ret' = table
                /\ pc' = "done"
                /\ UNCHANGED error
    /\ UNCHANGED <<self, call, hyperparams, left, right>>

Next ==
    \/ Validate
    \/ Classify
    \/ BuildStringKey
    \/ BuildNumericKey
    \/ BuildVectorKey
    \/ BuildDatetimeKey
    \/ RaiseUnsupported
    \/ DropRightColumns
    \/ Merge
    \/ Assemble

(***************************************************************************)
(* The calls of produce that are explored.  A column pair is given by the  *)
(* semantic types and the cells of its two columns; the left key columns   *)
(* are named a0, a1, ..., the right ones b0, b1, ..., and both tables have *)
(* a d3mIndex column.  These families of calls are drawn:                  *)
(*   ConfigCalls    one column pair, every form of the hyperparameters     *)
(*   DispatchCalls  up to MaxPairs column pairs of every mix of types      *)
(*   Data...Calls   one column pair, every content of the two columns      *)
(*   VectorCalls    one pair of vector columns                             *)
(*   DatetimeCalls  one pair of timestamp columns                          *)
(*   CoercionCalls  one pair with texts among the cells                    *)
(*   ArityCalls     column and accuracy sequences of any lengths           *)
(*   MixCalls       matching pairs of every supported type, extra columns  *)
(*   SelfJoinCalls  a table and its copy, joined on a key of distinct      *)
(*                  values with accuracy 1.0                               *)
(*   RaggedVectorCalls  left and right vectors of different lengths        *)
(***************************************************************************)
JoinTypes == {"left", "right", "outer", "inner", "cross"}

LeftKeyName(p) == "a" \o ToString(p - 1)
RightKeyName(p) == "b" \o ToString(p - 1)

IndexColumn(n) == [name |-> "d3mIndex", cells |-> [i \in 1..n |-> Num(i)]]

\* the dataset of one side: side is "left" or "right"
MakeDataset(pairs, side) ==
    LET CellsOf(p) == IF side = "left" THEN pairs[p].left_cells
                      ELSE pairs[p].right_cells
        TypesOf(p) == IF side = "left" THEN pairs[p].left_types
                      ELSE pairs[p].right_types
        NameOf(p) == IF side = "left" THEN LeftKeyName(p) ELSE RightKeyName(p)
    IN  [df |-> <<IndexColumn(Len(CellsOf(1)))>> \o
                [p \in DOMAIN pairs |-> [name |-> NameOf(p), cells |-> CellsOf(p)]],
         metadata |-> <<[name |-> "d3mIndex", semantic_types |-> {Integer}]>> \o
                [p \in DOMAIN pairs |->
                    [name |-> NameOf(p), semantic_types |-> TypesOf(p)]]]

\* score tables that rate a string against itself at 100
SelfScores ==
    {sc \in [StringCells -> [StringCells -> ScoreValues]] :
        \A v \in StringCells : sc[v][v] = 100}
DefaultScore == [v \in StringCells |-> [c \in StringCells |->
                    IF v = c THEN 100 ELSE 50]]

\* the columns of a pair when its content is not what is explored: the left
\* value 10.0 against the right values 10.4 and 20.0, or one string against
\* two
DefaultLeftCells(types) ==
    IF types \subseteq _STRING_JOIN_TYPES /\ types # {}
    THEN <<Num(1)>> ELSE <<Num(1000)>>
DefaultRightCells(types) ==
    IF types \subseteq _STRING_JOIN_TYPES /\ types # {}
    THEN <<Num(2), Num(1)>> ELSE <<Num(1040), Num(2000)>>

DefaultPair(left_types, right_types) ==
    [left_types |-> left_types, right_types |-> right_types,
     left_cells |-> DefaultLeftCells(left_types),
     right_cells |-> DefaultRightCells(right_types)]

ColumnTuple(names) == PyTuple([i \in DOMAIN names |-> PyStr(names[i])])

ConfigAccuracies == {0, 95, 100, 150}

\* what a call has besides its key columns: a column "v" in both tables
\* (shared), a d3mIndex column in the right table (right_index); self_join:
\* the right dataset is a copy of the left one
NoExtra == [shared |-> FALSE, right_index |-> TRUE, self_join |-> FALSE]

ConfigCalls ==
    {[pairs |-> <<DefaultPair({t}, {t})>>, score |-> DefaultScore, extra |-> NoExtra,
      hp |-> [left_col |-> lc, right_col |-> rc, accuracy |-> acc,
              absolute_accuracy |-> abs, join_type |-> jt]] :
        t \in {Text, Float},
        lc \in {PyStr(LeftKeyName(1)), ColumnTuple(<<LeftKeyName(1)>>)},
        rc \in {PyStr(RightKeyName(1)), ColumnTuple(<<RightKeyName(1)>>)},
        acc \in {PyFloat(a) : a \in ConfigAccuracies}
                  \cup {PyTuple(<<PyFloat(a)>>) : a \in ConfigAccuracies},
        abs \in {PyBool(b) : b \in BOOLEAN}
                  \cup {PyTuple(<<PyBool(b)>>) : b \in BOOLEAN},
        jt \in {"inner", "left"}}

DispatchTypes == {{Text}, {Categorical}, {Float}, {Integer}, {BoundingPolygon}}

DispatchCalls ==
    {[pairs |-> [p \in 1..n |-> DefaultPair(types[p][1], types[p][2])],
      score |-> DefaultScore, extra |-> NoExtra,
      hp |-> [left_col |-> ColumnTuple([p \in 1..n |-> LeftKeyName(p)]),
              right_col |-> ColumnTuple([p \in 1..n |-> RightKeyName(p)]),
              accuracy |-> PyTuple([p \in 1..n |-> PyFloat(95)]),
              absolute_accuracy |-> PyTuple([p \in 1..n |-> PyBool(FALSE)]),
              join_type |-> "inner"]] :
        <<n, types>> \in UNION {{n} \X [1..n -> DispatchTypes \X DispatchTypes] :
                                   n \in 1..MaxPairs}}

DataNumericCells == {NaN, Num(1000), Num(1040)}

DataNumericCalls ==
    {[pairs |-> <<[left_types |-> {Float}, right_types |-> {Float},
                   left_cells |-> lcells, right_cells |-> rcells]>>,
      score |-> DefaultScore, extra |-> NoExtra,
      hp |-> [left_col |-> ColumnTuple(<<LeftKeyName(1)>>),
              right_col |-> ColumnTuple(<<RightKeyName(1)>>),
              accuracy |-> PyTuple(<<PyFloat(a)>>),
              absolute_accuracy |-> PyTuple(<<PyBool(b)>>),
              join_type |-> jt]] :
        lcells \in Columns(DataNumericCells, MaxRows),
        rcells \in Columns(DataNumericCells, MaxRows),
        a \in {95, 100}, b \in BOOLEAN, jt \in JoinTypes \ {"cross"}}

DataStringCalls ==
    {[pairs |-> <<[left_types |-> {Text}, right_types |-> {Text},
                   left_cells |-> lcells, right_cells |-> rcells]>>,
      score |-> sc, extra |-> NoExtra,
      hp |-> [left_col |-> ColumnTuple(<<LeftKeyName(1)>>),
              right_col |-> ColumnTuple(<<RightKeyName(1)>>),
              accuracy |-> PyTuple(<<PyFloat(a)>>),
              absolute_accuracy |-> PyTuple(<<PyBool(FALSE)>>),
              join_type |-> jt]] :
        lcells \in Columns(StringCells, MaxRows),
        rcells \in Columns(StringCells, MaxRows),
        sc \in SelfScores, a \in {80, 100}, jt \in JoinTypes \ {"cross"}}

\* the hyperparameters of n column pairs, each with accuracy 0.95, relative
PairwiseHyperparams(n, join_type) ==
    [left_col |-> ColumnTuple([p \in 1..n |-> LeftKeyName(p)]),
     right_col |-> ColumnTuple([p \in 1..n |-> RightKeyName(p)]),
     accuracy |-> PyTuple([p \in 1..n |-> PyFloat(95)]),
     absolute_accuracy |-> PyTuple([p \in 1..n |-> PyBool(FALSE)]),
     join_type |-> join_type]

\* VectorCalls: one pair of vector columns; the left vectors are one of
\* components 10.0 and 20.0 and the vector of 10.0s, the right ones two of
\* components 10.0 and 10.4; accuracy 0.95 relative or 0.5 absolute
VectorsOf(S) == [1..VectorLength -> {Num(x) : x \in S}]

VectorCalls ==
    {[pairs |-> <<[left_types |-> {FloatVector}, right_types |-> {FloatVector},
                   left_cells |-> <<v, [i \in 1..VectorLength |-> Num(1000)]>>,
                   right_cells |-> rcells]>>,
      score |-> DefaultScore, extra |-> NoExtra,
      hp |-> [left_col |-> ColumnTuple(<<LeftKeyName(1)>>),
              right_col |-> ColumnTuple(<<RightKeyName(1)>>),
              accuracy |-> PyTuple(<<PyFloat(setting[1])>>),
              absolute_accuracy |-> PyTuple(<<PyBool(setting[2])>>),
              join_type |-> jt]] :
        v \in VectorsOf({1000, 2000}),
        rcells \in [1..2 -> VectorsOf({1000, 1040})],
        setting \in {<<95, FALSE>>, <<50, TRUE>>},
        jt \in {"inner", "left"}}

\* DatetimeCalls: one pair of timestamp columns of two rows each
ProduceDatetimeCells == {DateText(0, 1), DateText(10, 2), DateText(40, 1)}

DatetimeCalls ==
    {[pairs |-> <<[left_types |-> {DateTime}, right_types |-> {DateTime},
                   left_cells |-> lcells, right_cells |-> rcells]>>,
      score |-> DefaultScore, extra |-> NoExtra,
      hp |-> [left_col |-> ColumnTuple(<<LeftKeyName(1)>>),
              right_col |-> ColumnTuple(<<RightKeyName(1)>>),
              accuracy |-> PyTuple(<<PyFloat(a)>>),
              absolute_accuracy |-> PyTuple(<<PyBool(FALSE)>>),
              join_type |-> jt]] :
        lcells \in [1..2 -> ProduceDatetimeCells],
        rcells \in [1..2 -> ProduceDatetimeCells],
        a \in {50, 100}, jt \in JoinTypes}

\* CoercionCalls: one numeric or timestamp pair of two rows each, with texts
\* and missing values among the cells
CoercionCells(type) ==
    IF type = Float THEN {Num(1000), <<1040, 1>>, Malformed}
    ELSE {DateText(10, 1), NaN, Malformed}

CoercionCalls ==
    {[pairs |-> <<[left_types |-> {c[1]}, right_types |-> {c[1]},
                   left_cells |-> c[2], right_cells |-> c[3]]>>,
      score |-> DefaultScore, extra |-> NoExtra,
      hp |-> PairwiseHyperparams(1, jt)] :
        c \in UNION {{type} \X [1..2 -> CoercionCells(type)]
                             \X [1..2 -> CoercionCells(type)] :
                        type \in {Float, DateTime}},
        jt \in {"inner", "left"}}

\* ArityCalls: tables of MaxPairs column pairs of one type; left_col,
\* right_col, accuracy and absolute_accuracy are sequences of any lengths, all
\* tuples (the values d3m hands out) or all Python lists
PySequence(kind, elems) == [kind |-> kind, val |-> elems]

ArityCalls ==
    {[pairs |-> [p \in 1..MaxPairs |-> DefaultPair({t}, {t})],
      score |-> DefaultScore, extra |-> NoExtra,
      hp |-> [left_col |-> PySequence(kind,
                  [p \in 1..n[1] |-> PyStr(LeftKeyName(p))]),
              right_col |-> PySequence(kind,
                  [p \in 1..n[2] |-> PyStr(RightKeyName(p))]),
              accuracy |-> PySequence(kind, [p \in 1..n[3] |-> PyFloat(95)]),
              absolute_accuracy |-> PySequence(kind,
                  [p \in 1..n[4] |-> PyBool(FALSE)]),
              join_type |-> "inner"]] :
        t \in {Text, Float}, kind \in {"tuple", "list"},
        n \in (1..MaxPairs) \X (1..MaxPairs) \X (1..MaxPairs) \X (1..MaxPairs)}

\* MixCalls: up to MaxPairs pairs of any mix of string, numeric, vector and
\* timestamp columns; the one left row matches the second right row in every
\* pair; with or without a column "v" in both tables and a right d3mIndex
MixTypes == {Text, Float, FloatVector, DateTime}

MixLeftCells(type) ==
    CASE type = Text -> <<Num(1)>>
      [] type = Float -> <<Num(1000)>>
      [] type = FloatVector -> <<[i \in 1..VectorLength |-> Num(1000)]>>
      [] type = DateTime -> <<DateText(10, 1)>>

MixRightCells(type) ==
    CASE type = Text -> <<Num(2), Num(1)>>
      [] type = Float -> <<Num(2000), Num(1040)>>
      [] type = FloatVector -> <<[i \in 1..VectorLength |-> Num(2000)],
                                 [i \in 1..VectorLength |-> Num(1040)]>>
      [] type = DateTime -> <<DateText(40, 1), DateText(10, 2)>>

MixCalls ==
    {[pairs |-> [p \in DOMAIN types |->
                    [left_types |-> {types[p]}, right_types |-> {types[p]},
                     left_cells |-> MixLeftCells(types[p]),
                     right_cells |-> MixRightCells(types[p])]],
      score |-> DefaultScore,
      extra |-> [shared |-> shared, right_index |-> right_index,
                 self_join |-> FALSE],
      hp |-> PairwiseHyperparams(Len(types), jt)] :
        types \in UNION {[1..n -> MixTypes] : n \in 1..MaxPairs},
        shared \in BOOLEAN, right_index \in BOOLEAN, jt \in JoinTypes}

\* the dataset of one side with what the call has besides the key columns
WithExtra(dataset, extra, side) ==
    LET n == NumRows(dataset.df)
        mark == IF side = "left" THEN 7 ELSE 8
        shared == IF extra.shared
                  THEN <<[name |-> "v", cells |-> [i \in 1..n |-> Num(mark)]]>>
                  ELSE <<>>
        shared_metadata ==
            IF extra.shared
            THEN <<[name |-> "v", semantic_types |-> {Attribute}]>>
            ELSE <<>>
        dropped == IF side = "right" /\ ~extra.right_index
                   THEN <<"d3mIndex">> ELSE <<>>
    IN  [df |-> DropColumns(dataset.df \o shared, dropped),
         metadata |-> DropColumns(dataset.metadata \o shared_metadata, dropped)]

\* SelfJoinCalls: one table with a d3mIndex column, a key column a0 of
\* distinct values and a column v, joined to a copy of itself with accuracy
\* 1.0; the settings are given per pair or as scalars
RECURSIVE DistinctColumns(_, _)
DistinctColumns(cells, n) ==
    IF n = 0 THEN {<<>>}
    ELSE {Append(column, cell) :
            <<column, cell>> \in
                {cc \in DistinctColumns(cells, n - 1) \X cells :
                    cc[2] \notin Range(cc[1])}}

SelfKeyCells(type) ==
    CASE type = Text -> {Num(1), Num(2), Num(3)}
      [] type = Float -> {Num(1000), Num(1040), Num(-1000), NaN}
      [] type = FloatVector -> VectorsOf({1000, 1040})
      [] type = DateTime -> {DateText(0, 1), DateText(10, 1), DateText(10, 2)}

SelfJoinCalls ==
    {[pairs |-> <<[left_types |-> {c[1]}, right_types |-> {c[1]},
                   left_cells |-> c[2], right_cells |-> c[2]]>>,
      score |-> DefaultScore,
      extra |-> [shared |-> TRUE, right_index |-> TRUE, self_join |-> TRUE],
      hp |-> IF scalar
             THEN [left_col |-> PyStr(LeftKeyName(1)),
                   right_col |-> PyStr(LeftKeyName(1)),
                   accuracy |-> PyFloat(One),
                   absolute_accuracy |-> PyBool(FALSE),
                   join_type |-> "inner"]
             ELSE [left_col |-> ColumnTuple(<<LeftKeyName(1)>>),
                   right_col |-> ColumnTuple(<<LeftKeyName(1)>>),
                   accuracy |-> PyTuple(<<PyFloat(One)>>),
                   absolute_accuracy |-> PyTuple(<<PyBool(FALSE)>>),
                   join_type |-> "inner"]] :
        c \in UNION {{type} \X
                       UNION {DistinctColumns(SelfKeyCells(type), n) :
                                n \in 1..MaxRows} :
                        type \in MixTypes},
        scalar \in BOOLEAN}

\* the table of a self join: the left table and a column v, different in
\* every row
SelfDataset(pairs) ==
    LET dataset == MakeDataset(pairs, "left")
        n == NumRows(dataset.df)
    IN  [df |-> Append(dataset.df,
                       [name |-> "v", cells |-> [i \in 1..n |-> Num(10 * i)]]),
         metadata |-> Append(dataset.metadata,
                             [name |-> "v", semantic_types |-> {Attribute}])]

\* RaggedVectorCalls: a pair of vector columns whose left vectors have
\* VectorLength or VectorLength + 1 components and whose right vectors have,
\* alone or followed by a numeric pair
RaggedVectorCalls ==
    {[pairs |-> SubSeq(
                    <<[left_types |-> {FloatVector},
                       right_types |-> {FloatVector},
                       left_cells |-> <<[i \in 1..k[1] |-> Num(1000)]>>,
                       right_cells |-> <<[i \in 1..k[2] |-> Num(1000)]>>],
                      [left_types |-> {Float}, right_types |-> {Float},
                       left_cells |-> <<Num(1000)>>,
                       right_cells |-> <<Num(1000)>>]>>, 1, n),
      score |-> DefaultScore, extra |-> NoExtra,
      hp |-> PairwiseHyperparams(n, "inner")] :
        k \in (VectorLength..(VectorLength + 1))
                 \X (VectorLength..(VectorLength + 1)),
        n \in 1..2}

InputDataset(c, side) ==
    IF c.extra.self_join THEN SelfDataset(c.pairs)
    ELSE WithExtra(MakeDataset(c.pairs, side), c.extra, side)

\* produce is entered with the call c: the primitive holds the caller's two
\* datasets themselves, call keeps what they were
ProduceCall(c) ==
    /\ hyperparams = c.hp
    /\ left = InputDataset(c, "left")
    /\ right = InputDataset(c, "right")
    /\ call = [left |-> InputDataset(c, "left"),
               right |-> InputDataset(c, "right"),
               score |-> c.score]

Init ==
    /\ pc = "produce"
    /\ \/ \E c \in ConfigCalls : ProduceCall(c)
       \/ \E c \in DispatchCalls : ProduceCall(c)
       \/ \E c \in DataNumericCalls : ProduceCall(c)
       \/ \E c \in DataStringCalls : ProduceCall(c)
       \/ \E c \in VectorCalls : ProduceCall(c)
       \/ \E c \in DatetimeCalls : ProduceCall(c)
       \/ \E c \in CoercionCalls : ProduceCall(c)
       \/ \E c \in ArityCalls : ProduceCall(c)
       \/ \E c \in MixCalls : ProduceCall(c)
       \/ \E c \in SelfJoinCalls : ProduceCall(c)
       \/ \E c \in RaggedVectorCalls : ProduceCall(c)
    /\ ret = <<>>
    /\ error = NoError
    /\ frame = NewFrame
    /\ self = <<>>

Spec == Init /\ [][Next]_vars

(***************************************************************************)
(* Properties of produce (under Spec).                                     *)
(***************************************************************************)
Finished == pc \in {"done", "raised"}

\* the cells of the key column of pair p (counted from 1) of the two tables
\* as they were handed to produce
GivenRightName(p) ==
    IF HasColumn(call.right.df, RightKeyName(p)) THEN RightKeyName(p)
    ELSE LeftKeyName(p)
GivenLeftCells(p) == Cells(call.left.df, LeftKeyName(p))
GivenRightCells(p) == Cells(call.right.df, GivenRightName(p))

\* a scalar accuracy and a scalar absolute_accuracy that line 235 accepts
ScalarSettings ==
    /\ hyperparams.accuracy.kind = "float"
    /\ hyperparams.absolute_accuracy.kind = "bool"
    /\ hyperparams.left_col.kind = hyperparams.right_col.kind
    /\ \/ hyperparams.absolute_accuracy.val
       \/ hyperparams.accuracy.val \in 1..One

\* the call of the scenario: one Float column pair named by strings, the left
\* value 10.0, the right values 10.4 and 20.0, accuracy 0.95, not absolute
ScalarNumericScenario ==
    /\ hyperparams.accuracy = PyFloat(95)
    /\ hyperparams.absolute_accuracy = PyBool(FALSE)
    /\ hyperparams.left_col = PyStr(LeftKeyName(1))
    /\ hyperparams.right_col = PyStr(RightKeyName(1))
    /\ _get_column_semantic_type(call.left, LeftKeyName(1)) = {Float}
    /\ _get_column_semantic_type(call.right, RightKeyName(1)) = {Float}
    /\ GivenLeftCells(1) = <<Num(1000)>>
    /\ GivenRightCells(1) = <<Num(1040), Num(2000)>>

\* C4: with a scalar accuracy and a scalar absolute_accuracy the call applies
\* the pair of scalars to every column pair and completes; in the scenario
\* (10.0 against 10.4 and 20.0, accuracy 0.95, relative) it returns a table in
\* which 10.0 is joined to 10.4.
C4_ScalarSettingsBroadcast ==
    (Finished /\ ScalarSettings) =>
        /\ error = NoError
        /\ ScalarNumericScenario =>
              (pc = "done" /\ ret.rows = <<<<1, 1>>>>)

\* the exception the numeric scenario ends in
C4_ScenarioRaisesTypeError ==
    (Finished /\ ScalarNumericScenario) => error.exception = "TypeError"

\* the number of column pairs of the call
NumPairs ==
    Cardinality({i \in DOMAIN call.left.df :
                    call.left.df[i].name \notin {"d3mIndex", "v"}})

\* the column pairs of the call for which the classifier reports no type
UnsupportedPairs ==
    {p \in 1..NumPairs :
        _get_join_semantic_type(
            _get_column_semantic_type(call.left, LeftKeyName(p)),
            _get_column_semantic_type(call.right, GivenRightName(p)))
        = {NoJoinType}}

Mentions(message, word) == \E i \in DOMAIN message : message[i] = word

\* C8: when a column pair is unsupported the call fails with the unsupported
\* join error naming the two columns, and it fails before a matcher has run
\* and before a synthetic column has been built for any pair, wherever the
\* unsupported pair stands in the list.
C8_UnsupportedFailsFast ==
    UnsupportedPairs # {} =>
        /\ pc \notin {"merge", "assemble", "done"}
        /\ frame.new_left_cols = <<>>
        /\ left = call.left /\ right = call.right
        /\ pc = "raised" =>
              /\ error.exception = "InvalidArgumentValueError"
              /\ \E p \in UnsupportedPairs :
                    /\ Mentions(error.message, LeftKeyName(p))
                    /\ Mentions(error.message, GivenRightName(p))

\* what does hold: such a call never gets to the merge and ends in the
\* unsupported join error, which names the type
C8_UnsupportedRaises ==
    UnsupportedPairs # {} =>
        /\ pc \notin {"merge", "assemble", "done"}
        /\ pc = "raised" =>
              /\ error.exception = "InvalidArgumentValueError"
              /\ error.message[1] = "join not surpported on type "

\* the left rows for which some matcher returned no match
UnmatchedLeftRows ==
    {i \in 1..NumRows(left.df) :
        \E k \in DOMAIN frame.new_left_cols :
            Cells(left.df, frame.new_left_cols[k])[i] = NaN}

Merged == pc \in {"assemble", "done", "raised"} /\ frame.joined # <<>>

RowsOfLeft(i) ==
    {r \in DOMAIN frame.joined.rows : frame.joined.rows[r][1] = i}

\* C9: a left row with a no-match for some column pair is paired with no right
\* row: an inner join leaves it out, a left join has it once with the right
\* side missing; also when the right key column holds missing values.
C9_UnmatchedRowNeverPaired ==
    Merged =>
        \A i \in UnmatchedLeftRows :
            /\ hyperparams.join_type = "inner" => RowsOfLeft(i) = {}
            /\ hyperparams.join_type = "left" =>
                  /\ Cardinality(RowsOfLeft(i)) = 1
                  /\ \A r \in RowsOfLeft(i) : frame.joined.rows[r][2] = 0

\* the same for right key columns without missing values, which holds
C9_UnmatchedRowNotPairedWithoutNulls ==
    (Merged /\ \A p \in 1..NumPairs :
                   NaN \notin Range(GivenRightCells(p))) =>
        \A i \in UnmatchedLeftRows :
            /\ hyperparams.join_type = "inner" => RowsOfLeft(i) = {}
            /\ hyperparams.join_type = "left" =>
                  /\ Cardinality(RowsOfLeft(i)) = 1
                  /\ \A r \in RowsOfLeft(i) : frame.joined.rows[r][2] = 0

\* C10: once produce has returned or raised, the tables of the caller's two
\* datasets have the column names, the column order and the cells they had
\* when the call was made.
C10_InputsUnchanged ==
    Finished => (left.df = call.left.df /\ right.df = call.right.df)

\* the column pairs (counted from 1) that the loop has joined as vectors
VectorPairs ==
    {p \in 1..frame.col_index :
        Branch(frame.join_types[p]) = "vector"}

\* the number of key columns a joined pair has on each side
KeyWidth(p) ==
    IF p \in VectorPairs THEN Len(GivenLeftCells(p)[1]) ELSE 1

PairAccuracy(p) == hyperparams.accuracy.val[p].val
PairAbsolute(p) == hyperparams.absolute_accuracy.val[p].val

VectorKeyName(prefix, p, i) ==
    prefix \o ToString(p - 1) \o "_" \o ToString(i - 1)

\* the key of component i of row r of the left vectors of pair p
VectorKey(p, i, r) == Cells(left.df, VectorKeyName("lefty_vector", p, i))[r]

KeyKinds == {"string", "numeric", "datetime"}

SyntheticKeyNames ==
    LET plain ==
            {prefix \o kind \o ToString(p - 1) :
                prefix \in {"lefty_", "righty_"}, kind \in KeyKinds,
                p \in 1..MaxPairs}
            \cup {VectorKeyName(prefix, p, i) :
                     prefix \in {"lefty_vector", "righty_vector"},
                     p \in 1..MaxPairs, i \in 1..(VectorLength + 1)}
    IN  plain \cup {name \o suffix : name \in plain,
                                     suffix \in {"_left", "_right"}}

\* the positions of the columns of the returned table that are named name
ResultColumns(name) ==
    {c \in DOMAIN ret.columns : ret.columns[c].name = name}

\* the cells that the returned table has of a column of the left table
\* (side 1) or of the right table (side 2): those of the paired row
JoinedCells(cells, side) ==
    [r \in DOMAIN ret.rows |->
        IF ret.rows[r][side] = 0 THEN NaN ELSE cells[ret.rows[r][side]]]

\* C15: the table that a join returns has no column that was created for
\* merging, and has every column of the left input table (its key columns
\* too) with the cells of the paired left row, under its name or under its
\* name with the suffix _left.
C15_NoSyntheticLeftKept ==
    pc = "done" =>
        /\ \A c \in DOMAIN ret.columns :
              ret.columns[c].name \notin SyntheticKeyNames
        /\ \A c \in DOMAIN call.left.df :
              \E d \in DOMAIN ret.columns :
                  /\ ret.columns[d].name
                        \in {call.left.df[c].name,
                             call.left.df[c].name \o "_left"}
                  /\ ret.columns[d].cells
                        = JoinedCells(call.left.df[c].cells, 1)

\* an outer join of a vector pair and a timestamp pair has returned rows
C15_Witness ==
    /\ pc = "done"
    /\ hyperparams.join_type = "outer"
    /\ Len(frame.join_types) = 2
    /\ {Branch(frame.join_types[p]) : p \in 1..2} = {"vector", "datetime"}
    /\ Len(frame.new_left_cols) = VectorLength + 1
    /\ Len(ret.rows) = 2

\* the names, other than d3mIndex and the key columns, of the columns that
\* both input tables have
SharedNames ==
    ({call.left.df[c].name : c \in DOMAIN call.left.df}
        \cap {call.right.df[c].name : c \in DOMAIN call.right.df})
    \ ({"d3mIndex"} \cup {LeftKeyName(p) : p \in 1..MaxPairs}
                    \cup {RightKeyName(p) : p \in 1..MaxPairs})

\* C16: in the table that a join returns, the d3mIndex column of the right
\* table is absent under any name, the d3mIndex column of the left table is
\* there once under its own name, and a name of other columns of both tables
\* that are no key columns is there once with the suffix _left (the column of the left table) and
\* once with the suffix _right (the column of the right table).
C16_IndexDroppedSharedSuffixed ==
    pc = "done" =>
        /\ ResultColumns("d3mIndex_right") = {}
        /\ ResultColumns("d3mIndex_left") = {}
        /\ Cardinality(ResultColumns("d3mIndex")) = 1
        /\ \A c \in ResultColumns("d3mIndex") :
              ret.columns[c].cells
                = JoinedCells(Cells(call.left.df, "d3mIndex"), 1)
        /\ \A name \in SharedNames :
              /\ ResultColumns(name) = {}
              /\ Cardinality(ResultColumns(name \o "_left")) = 1
              /\ Cardinality(ResultColumns(name \o "_right")) = 1
              /\ \A c \in ResultColumns(name \o "_left") :
                    ret.columns[c].cells
                      = JoinedCells(Cells(call.left.df, name), 1)
              /\ \A c \in ResultColumns(name \o "_right") :
                    ret.columns[c].cells
                      = JoinedCells(Cells(call.right.df, name), 2)

\* a join of tables that both have a d3mIndex column and a column v has
\* returned rows
C16_Witness ==
    /\ pc = "done"
    /\ HasColumn(call.right.df, "d3mIndex")
    /\ SharedNames = {"v"}
    /\ ret.rows # <<>>
    /\ ResultColumns("v_right") # {}

\* the exceptions that report an invalid argument
InvalidArgumentErrors ==
    {"InvalidArgumentValueError", "InvalidArgumentTypeError"}

\* nothing has been matched: the tables are as they were handed in
NoMatchingWork ==
    /\ left = call.left
    /\ right = call.right
    /\ frame.new_left_cols = <<>>

RejectedUpFront ==
    error.exception \in InvalidArgumentErrors /\ NoMatchingWork

IsSequence(x) == x.kind \in {"tuple", "list"}

\* an accuracy outside (0, 1] of a pair that is not absolute, as scalars
ScalarAccuracyOutOfRange ==
    /\ hyperparams.accuracy.kind = "float"
    /\ hyperparams.absolute_accuracy.kind = "bool"
    /\ ~hyperparams.absolute_accuracy.val
    /\ hyperparams.accuracy.val \notin 1..One

\* the same for an accuracy and an absolute_accuracy given per pair
ListedAccuracyOutOfRange ==
    /\ IsSequence(hyperparams.accuracy)
    /\ IsSequence(hyperparams.absolute_accuracy)
    /\ Len(hyperparams.accuracy.val) = Len(hyperparams.absolute_accuracy.val)
    /\ \E i \in DOMAIN hyperparams.accuracy.val :
          /\ ~hyperparams.absolute_accuracy.val[i].val
          /\ hyperparams.accuracy.val[i].val \notin 1..One

\* C17: a call whose accuracy for some pair is outside (0, 1] while the pair
\* is not absolute ends in an invalid-argument error before anything is
\* matched, for scalar settings and for settings given per pair.
C17_OutOfRangeAccuracyRejected ==
    (Finished /\ (ScalarAccuracyOutOfRange \/ ListedAccuracyOutOfRange)) =>
        RejectedUpFront

\* what holds: the scalar form is rejected so; the per-pair form, as the
\* tuple that the hyperparameter is, ends in NameError
C17_ListedOutOfRangeRaisesNameError ==
    /\ (Finished /\ ScalarAccuracyOutOfRange) => RejectedUpFront
    /\ (Finished /\ ListedAccuracyOutOfRange
                  /\ hyperparams.accuracy.kind = "tuple"
                  /\ hyperparams.absolute_accuracy.kind = "tuple") =>
          (error.exception = "NameError" /\ NoMatchingWork)

\* left_col and right_col are sequences of different lengths
ColumnArityMismatch ==
    /\ IsSequence(hyperparams.left_col)
    /\ IsSequence(hyperparams.right_col)
    /\ Len(hyperparams.left_col.val) # Len(hyperparams.right_col.val)

\* C18: a call whose left_col and right_col are lists of different lengths
\* ends in an invalid-argument error before anything is matched, whatever
\* accuracy and absolute_accuracy are.
C18_ColumnArityMismatchRejected ==
    (Finished /\ ColumnArityMismatch) => RejectedUpFront

\* what holds: with settings of equal lengths the lengths of left_col and
\* right_col are never the reason of an invalid-argument error; a shorter
\* right_col ends in IndexError, a shorter left_col is joined on its pairs
C18_ColumnArityMismatchOutcome ==
    (Finished /\ ColumnArityMismatch
              /\ Len(hyperparams.accuracy.val)
                    = Len(hyperparams.absolute_accuracy.val)) =>
        /\ error.exception \notin InvalidArgumentErrors
        /\ Len(hyperparams.right_col.val) < Len(hyperparams.left_col.val) =>
              error.exception = "IndexError"

\* accuracy or absolute_accuracy is a sequence that has not one entry per
\* column pair, or the two sequences differ in length
SettingsArityMismatch ==
    /\ IsSequence(hyperparams.left_col)
    /\ IsSequence(hyperparams.accuracy)
    /\ IsSequence(hyperparams.absolute_accuracy)
    /\ \/ Len(hyperparams.accuracy.val) # Len(hyperparams.left_col.val)
       \/ Len(hyperparams.absolute_accuracy.val) # Len(hyperparams.left_col.val)
       \/ Len(hyperparams.accuracy.val) # Len(hyperparams.absolute_accuracy.val)

\* C19: a call whose accuracy or absolute_accuracy list has not the length of
\* the list of column pairs, or whose accuracy and absolute_accuracy lists
\* differ in length, ends in an invalid-argument error before anything is
\* matched.
C19_SettingsArityMismatchRejected ==
    (Finished /\ SettingsArityMismatch) => RejectedUpFront

\* what holds: tuples of accuracy and absolute_accuracy that differ in length
\* are rejected so
C19_SettingsOfDifferentLengthsRejected ==
    (Finished /\ hyperparams.accuracy.kind = "tuple"
              /\ hyperparams.absolute_accuracy.kind = "tuple"
              /\ Len(hyperparams.accuracy.val)
                    # Len(hyperparams.absolute_accuracy.val)) =>
        RejectedUpFront

\* a key cell that cannot be coerced: a text that is no number in a numeric
\* pair, a text that is no timestamp in a timestamp pair
Uncoercible(p) ==
    /\ p <= Len(frame.join_types)
    /\ Branch(frame.join_types[p]) \in {"numeric", "datetime"}
    /\ Malformed \in Range(GivenLeftCells(p)) \cup Range(GivenRightCells(p))

\* C20: a call with a key cell that cannot be coerced returns a table, and no
\* exception reaches the caller.
C20_UncoercibleCellIsNoMatch ==
    (Finished /\ \E p \in 1..NumPairs : Uncoercible(p)) =>
        (pc = "done" /\ error = NoError)

\* what holds: such a call ends in the exception of the conversion
C20_UncoercibleCellRaises ==
    (Finished /\ \E p \in 1..NumPairs : Uncoercible(p)) =>
        error.exception \in {"ValueError", "TypeError", "ParserError"}

\* the call joins a table to a copy of itself
SelfJoin == call.left = call.right

\* the key column of a self join as the matchers compare it: the instants of
\* the timestamps, the cells themselves otherwise
ComparedKeys ==
    LET cells == GivenLeftCells(1)
    IN  IF _get_column_semantic_type(call.left, LeftKeyName(1)) = {DateTime}
        THEN [i \in DOMAIN cells |-> Parse(cells[i])]
        ELSE cells

Distinct(values) ==
    \A i, j \in DOMAIN values : values[i] = values[j] => i = j

\* the settings are given per pair, or the key is a string column (scalar
\* settings of other pairs end in the TypeError of C4)
SettingsReachMatcher ==
    \/ hyperparams.accuracy.kind = "tuple"
    \/ _get_column_semantic_type(call.left, LeftKeyName(1)) = {Text}

ScaleFactors == {2, 3, 10}

Scaled(cell, k) == IF IsNaN(cell) THEN NaN ELSE Num(k * cell[1])

AtPair == frame.col_index + 1

\* C25: no pair of columns is dispatched to the geo-vector branch, whose
\* matcher is the geo matcher; a pair that is resolved to the bounding-polygon
\* type is met by no branch, the call ends at it in the error of an
\* unsupported join and never returns.
C25_GeoBranchNeverTaken ==
    /\ \A p \in DOMAIN frame.join_types :
          Branch(frame.join_types[p]) # "geo_vector"
    /\ (pc = "raised" /\ AtPair \in DOMAIN frame.join_types
                      /\ frame.join_types[AtPair] \in _GEO_JOIN_TYPES) =>
          /\ error.exception = "InvalidArgumentValueError"
          /\ error.message
                = <<"join not surpported on type ", frame.join_types[AtPair]>>
    /\ pc = "done" =>
          \A p \in DOMAIN frame.join_types :
              frame.join_types[p] \notin _GEO_JOIN_TYPES

\* the loop has joined a first pair and raised at a second pair, of the
\* bounding-polygon type
C25_Witness ==
    /\ pc = "raised"
    /\ frame.col_index = 1
    /\ Len(frame.join_types) = 2
    /\ frame.join_types[2] = BoundingPolygon
    /\ Len(frame.new_left_cols) = 1
    /\ error.exception = "InvalidArgumentValueError"

\* the values that the classifier can return for the tag sets of the call
PossibleJoinTypes ==
    _get_join_semantic_type(call.left_types, call.right_types)

\* C27 (under SpecClassify): for a pair of tag sets the classifier returns
\* one and the same type in every run, also when the two columns share
\* several supported types.
C27_ClassificationDeterministic ==
    pc = "classify_return" => PossibleJoinTypes = {ret}

\* what holds: the result is fixed unless the columns share several
\* supported types
C27_DeterministicUnlessSeveralShared ==
    (pc = "classify_return"
        /\ Cardinality(call.left_types \cap call.right_types
                           \cap _SUPPORTED_TYPES) <= 1) =>
        PossibleJoinTypes = {ret}

\* C28 (under Spec): when the merge pairs no rows, the call returns a table
\* of zero rows and raises nothing.
C28_EmptyJoinReturnsEmptyTable ==
    (Finished /\ Merged /\ frame.joined.rows = <<>>) =>
        (pc = "done" /\ error = NoError /\ ret.rows = <<>>)

\* what holds: such a call ends in the KeyError of joined[column][0]
C28_EmptyJoinRaisesKeyError ==
    (Finished /\ Merged /\ frame.joined.rows = <<>>) =>
        (pc = "raised" /\ error.exception = "KeyError")

\* a left key column and the right key column of the same pair and component
KeyNamePairs ==
    {<<"lefty_" \o kind \o ToString(p - 1),
       "righty_" \o kind \o ToString(p - 1)>> :
        kind \in KeyKinds, p \in 1..MaxPairs}
    \cup {<<VectorKeyName("lefty_vector", p, i),
            VectorKeyName("righty_vector", p, i)>> :
             p \in 1..MaxPairs, i \in 1..(VectorLength + 1)}

KeysAligned ==
    /\ Len(frame.new_left_cols) = Len(frame.new_right_cols)
    /\ \A i \in DOMAIN frame.new_left_cols :
          /\ i \in DOMAIN frame.new_right_cols
          /\ <<frame.new_left_cols[i], frame.new_right_cols[i]>>
                \in KeyNamePairs

\* C29: when the tables are about to be merged, the list of the left key
\* columns and the list of the right key columns have one length and hold at
\* each position the key columns of one pair and component, also after a
\* vector pair whose left and right vectors differ in length.
C29_MergeKeysAligned ==
    pc = "merge" => KeysAligned

\* what holds: the lists are aligned when the vectors of every vector pair
\* have one length on both sides; shorter left vectors end in the ValueError
\* of pd.merge, longer ones in IndexError before the merge
C29_AlignedForEqualLengths ==
    /\ (pc = "merge"
          /\ \A p \in VectorPairs :
                Len(GivenRightCells(p)[1]) = Len(GivenLeftCells(p)[1])) =>
          KeysAligned
    /\ (Finished /\ frame.col_index = Len(frame.join_types)
                  /\ frame.join_types # <<>> /\ ~KeysAligned) =>
          error.exception = "ValueError"

(***************************************************************************)
(* isolation_forest.py: IsolationForestPrimitive.                          *)
(*                                                                         *)
(* The object is the function self from the names of the instance          *)
(* attributes that exist to their values; reading an attribute that is not *)
(* in DOMAIN self raises AttributeError.  A data frame is the sequence of  *)
(* its rows, a row being a point of Points (all frames have the same       *)
(* columns).  The scikit-learn estimator is [fitted, trained_on, outliers]:*)
(* the frame it was last fitted on and the points it labels -1.  The trees *)
(* depend on the state of the random generator, so a fit may give any set  *)
(* of outliers.  A call that raises leaves the object as it was at the     *)
(* raise, and the object can be called again.                              *)
(***************************************************************************)
Points == {1, 9}

ForestFrames == UNION {[1..n -> Points] : n \in 1..MaxRows}

PredictedTarget ==
    "https://metadata.datadrivendiscovery.org/types/PredictedTarget"

\* the labels of the rows, last row first
ReversedPredictions(model, inputs) ==
    [i \in DOMAIN inputs |->
        IF inputs[Len(inputs) + 1 - i] \in model.outliers THEN -1 ELSE 1]

\* a fit that trains whatever _needs_fit is
FitAlways(obj, outliers) ==
    IF "_needs_fit" \notin DOMAIN obj \/ "_inputs" \notin DOMAIN obj
    THEN [obj |-> obj, exception |-> "AttributeError"]
    ELSE [obj |-> [a \in DOMAIN obj |->
                      IF a = "_model"
                      THEN [fitted |-> TRUE, trained_on |-> obj["_inputs"],
                            outliers |-> outliers]
                      ELSE IF a = "_needs_fit" THEN FALSE
                      ELSE obj[a]],
          exception |-> "none"]

\* lines 99-102: IsolationForest(...)
UnfittedModel == [fitted |-> FALSE, trained_on |-> <<>>, outliers |-> {}]

\* IsolationForest.fit(X)
FittedModel(inputs, outliers) ==
    [fitted |-> TRUE, trained_on |-> inputs, outliers |-> outliers]

\* the estimators of the Params values handed to set_params: a new one, and
\* those fitted on a frame of one row
Models ==
    {UnfittedModel}
    \cup {FittedModel(inputs, outliers) :
             inputs \in [1..1 -> Points], outliers \in SUBSET Points}

\* lines 53-55
Params == [model : Models, needs_fit : BOOLEAN]

\* obj.name = value
SetAttr(obj, name, value) ==
    [a \in DOMAIN obj \cup {name} |-> IF a = name THEN value ELSE obj[a]]

HasAttr(obj, name) == name \in DOMAIN obj

\* _needs_fit is there and true
NeedsFit(obj) == HasAttr(obj, "_needs_fit") /\ obj["_needs_fit"]

\* the sets of outliers that a call of fit on obj can end with
FitOutcomes(obj) == IF NeedsFit(obj) THEN SUBSET Points ELSE {{}}

\* IsolationForest.predict(X): one label per row, in row order
Predictions(model, inputs) ==
    [i \in DOMAIN inputs |-> IF inputs[i] \in model.outliers THEN -1 ELSE 1]

\* lines 113-115: the object after the body of fit and the exception of it
FitResult(obj, outliers) ==
    IF ~HasAttr(obj, "_needs_fit")
    THEN [obj |-> obj, exception |-> "AttributeError"]
    ELSE IF ~obj["_needs_fit"]
    THEN [obj |-> obj, exception |-> "none"]
    ELSE IF ~HasAttr(obj, "_inputs")
    THEN [obj |-> obj, exception |-> "AttributeError"]
    ELSE [obj |-> SetAttr(SetAttr(obj, "_model",
                                  FittedModel(obj["_inputs"], outliers)),
                          "_needs_fit", FALSE),
          exception |-> "none"]

\* lines 132-141: the frame that produce returns
OutlierFrame(result) ==
    [df |-> <<[name |-> "outlier_label", cells |-> result]>>,
     metadata |-> <<[name |-> "outlier_label",
                     semantic_types |-> {PredictedTarget}]>>]

\* the end of a call of a method
Returns(method, args, value) ==
    /\ call' = [method |-> method, args |-> args]
    /\ ret' = value
    /\ error' = NoError
    /\ pc' = "returned"

Raises(method, args, exception) ==
    /\ call' = [method |-> method, args |-> args]
    /\ ret' = <<>>
    /\ error' = [exception |-> exception, message |-> <<>>]
    /\ pc' = "raised"

\* lines 96-102
InitForest ==
    /\ pc = "constructed"
    /\ call = [method |-> "__init__", args |-> <<>>]
    /\ ret = <<>>
    /\ error = NoError
    /\ hyperparams = [n_jobs |-> 64, n_estimators |-> 100]
    /\ left = <<>>
    /\ right = <<>>
    /\ frame = <<>>
    /\ self = [_model |-> UnfittedModel]

\* lines 104-106
SetTrainingData ==
    \E inputs \in ForestFrames :
        /\ self' = SetAttr(SetAttr(self, "_inputs", inputs),
                           "_needs_fit", TRUE)
        /\ Returns("set_training_data", <<inputs>>, <<>>)
        /\ UNCHANGED <<hyperparams, left, right, frame>>

\* lines 108-117
Fit ==
    \E outliers \in FitOutcomes(self) :
        LET r == FitResult(self, outliers)
        IN  /\ self' = r.obj
            /\ IF r.exception # "none"
               THEN Raises("fit", <<>>, r.exception)
               ELSE Returns("fit", <<>>, <<>>)
            /\ UNCHANGED <<hyperparams, left, right, frame>>

\* lines 119-143
IsolationForestProduce ==
    \E inputs \in ForestFrames, outliers \in FitOutcomes(self) :
        LET r == FitResult(self, outliers)
        IN  /\ self' = r.obj
            /\ IF r.exception # "none"
               THEN Raises("produce", <<inputs>>, r.exception)
               ELSE IF ~r.obj["_model"].fitted
               THEN Raises("produce", <<inputs>>, "NotFittedError")
               ELSE Returns("produce", <<inputs>>,
                       OutlierFrame(Predictions(r.obj["_model"], inputs)))
            /\ UNCHANGED <<hyperparams, left, right, frame>>

\* lines 145-149
GetParams ==
    /\ IF ~HasAttr(self, "_needs_fit")
       THEN Raises("get_params", <<>>, "AttributeError")
       ELSE Returns("get_params", <<>>,
                    [model |-> self["_model"],
                     needs_fit |-> self["_needs_fit"]])
    /\ UNCHANGED <<self, hyperparams, left, right, frame>>

\* lines 151-154
SetParams ==
    \E params \in Params :
        /\ self' = SetAttr(SetAttr(self, "_model", params.model),
                           "_needs_fit", params.needs_fit)
        /\ Returns("set_params", <<params>>, <<>>)
        /\ UNCHANGED <<hyperparams, left, right, frame>>

NextForest ==
    \/ SetTrainingData
    \/ Fit
    \/ IsolationForestProduce
    \/ GetParams
    \/ SetParams

SpecForest == InitForest /\ [][NextForest]_vars

(***************************************************************************)
(* Properties of IsolationForestPrimitive (under SpecForest).              *)
(***************************************************************************)
ProduceReturned == pc = "returned" /\ call.method = "produce"

\* C23: when produce has returned for a frame of n rows, the returned frame
\* has the one column outlier_label, the column has n labels, label i is the
\* estimator's label of row i and is -1 or 1, and the column carries the
\* semantic type PredictedTarget.
C23_OneLabelPerRowInOrder ==
    ProduceReturned =>
        LET inputs == call.args[1]
        IN  /\ Len(ret.df) = 1
            /\ ret.df[1].name = "outlier_label"
            /\ Len(ret.df[1].cells) = Len(inputs)
            /\ \A i \in DOMAIN inputs :
                  /\ ret.df[1].cells[i] \in {-1, 1}
                  /\ ret.df[1].cells[i] = -1
                        <=> inputs[i] \in self["_model"].outliers
            /\ Len(ret.metadata) = 1
            /\ ret.metadata[1].name = "outlier_label"
            /\ PredictedTarget \in ret.metadata[1].semantic_types

\* produce has returned an outlier and an inlier label, in this order, from
\* an estimator that was fitted on the training data
C23_Witness ==
    /\ ProduceReturned
    /\ HasAttr(self, "_inputs")
    /\ self["_model"].trained_on = self["_inputs"]
    /\ ret.df[1].cells = <<-1, 1>>

\* C26: a fit that returns trains on the training data and clears _needs_fit
\* when _needs_fit is true and leaves the object as it is otherwise; a
\* produce that returns does the same before it predicts, and its labels are
\* those of the estimator it leaves; set_training_data stores the data,
\* sets _needs_fit and leaves the estimator alone; and no call of fit or
\* produce sets _needs_fit.
C26_TrainedOncePerTrainingData ==
    [][/\ (call'.method \in {"fit", "produce"} /\ pc' = "returned") =>
            IF NeedsFit(self)
            THEN /\ self'["_model"].fitted
                 /\ self'["_model"].trained_on = self["_inputs"]
                 /\ ~self'["_needs_fit"]
                 /\ self'["_inputs"] = self["_inputs"]
            ELSE self' = self
       /\ (call'.method = "produce" /\ pc' = "returned") =>
            ret'.df[1].cells = Predictions(self'["_model"], call'.args[1])
       /\ call'.method \in {"fit", "produce"} =>
            (NeedsFit(self') => NeedsFit(self))
       /\ call'.method = "set_training_data" =>
            /\ self'["_needs_fit"]
            /\ self'["_inputs"] = call'.args[1]
            /\ self'["_model"] = self["_model"]]_vars

\* fit has returned and left an estimator that is fitted on the training
\* data, with _needs_fit false
C26_Witness ==
    /\ pc = "returned"
    /\ call.method = "fit"
    /\ ~self["_needs_fit"]
    /\ self["_model"].fitted
    /\ self["_model"].trained_on = self["_inputs"]

\* C30: in every state of the object _needs_fit is defined, training data is
\* there whenever _needs_fit is true, and no call has raised AttributeError.
C30_InstanceStateDefined ==
    /\ HasAttr(self, "_needs_fit")
    /\ self["_needs_fit"] => HasAttr(self, "_inputs")
    /\ error.exception # "AttributeError"

\* what holds: once set_training_data has been called _needs_fit is defined
\* and no call raises AttributeError
C30_DefinedAfterTrainingData ==
    HasAttr(self, "_inputs") =>
        /\ HasAttr(self, "_needs_fit")
        /\ error.exception # "AttributeError"

(***************************************************************************)
(* concat.py: VerticalConcatenationPrimitive.                              *)
(*                                                                         *)
(* The inputs are datasets with one table each.  A dataset is [df,         *)
(* metadata], the metadata being the column names and the number of rows   *)
(* that it describes.  The table of input k has the column d3mIndex and a  *)
(* column x or y, whose cell in row r is the number 10 * k + r, so that a  *)
(* row of the result tells the input row it was copied from.               *)
(***************************************************************************)
IndexValues == {1, 2}

IndexCells == UNION {[1..n -> {Num(d) : d \in IndexValues}] : n \in 1..MaxRows}

\* drop_duplicates with keep="last"
DropDuplicatesKeepLast(df, subset) ==
    LET keys == df[CHOOSE c \in DOMAIN df : df[c].name = subset].cells
        kept == {r \in DOMAIN keys :
                    \A q \in DOMAIN keys : q > r => keys[q] # keys[r]}
    IN  [c \in DOMAIN df |->
            [name |-> df[c].name,
             cells |-> LET Keep(r) == r \in kept
                           rows == SelectSeq([r \in DOMAIN keys |-> r], Keep)
                       IN  [i \in DOMAIN rows |-> df[c].cells[rows[i]]]]]

ConcatTable(k, index, name) ==
    <<[name |-> "d3mIndex", cells |-> index],
      [name |-> name,
       cells |-> [r \in DOMAIN index |-> Num(10 * k + r)]]>>

ColumnNames(df) == [c \in DOMAIN df |-> df[c].name]

ConcatDataset(k, index, name) ==
    LET df == ConcatTable(k, index, name)
    IN  [df |-> df,
         metadata |-> [columns |-> ColumnNames(df), length |-> Len(index)]]

\* the inputs of a call: 1..MaxInputs datasets, all with the column x or the
\* last one with the column y
ConcatInputs ==
    UNION {{[k \in 1..n |->
               ConcatDataset(k, index[k],
                             IF k = n /\ last_y THEN "y" ELSE "x")] :
              index \in [1..n -> IndexCells], last_y \in BOOLEAN} :
           n \in 1..MaxInputs}

\* lines 35-50
ConcatHyperparams ==
    [remove_duplicate_rows : BOOLEAN,
     column_overlap : {"union", "exact", "intersection"}]

\* lines 93-105: the tables of the inputs
RECURSIVE Dataframes(_)
Dataframes(inputs) ==
    IF inputs = <<>> THEN <<>>
    ELSE Append(Dataframes(SubSeq(inputs, 1, Len(inputs) - 1)),
                inputs[Len(inputs)].df)

\* lines 108-111: every table has the columns of the first one
SameColumns(dataframes) ==
    \A k \in DOMAIN dataframes :
        ColumnNames(dataframes[k]) = ColumnNames(dataframes[1])

\* pd.concat: the columns of the result for join="outer", in the order of
\* their first occurrence
RECURSIVE UnionColumns(_)
UnionColumns(dataframes) ==
    IF dataframes = <<>> THEN <<>>
    ELSE LET front == UnionColumns(SubSeq(dataframes, 1, Len(dataframes) - 1))
             New(name) == name \notin Range(front)
         IN  front \o SelectSeq(ColumnNames(dataframes[Len(dataframes)]), New)

\* pd.concat: the columns of the result for join="inner"
IntersectionColumns(dataframes) ==
    LET InAll(name) ==
            \A k \in DOMAIN dataframes : HasColumn(dataframes[k], name)
    IN  SelectSeq(ColumnNames(dataframes[1]), InAll)

\* pd.concat: the cells of a column, table after table, NaN where a table
\* has no such column
RECURSIVE ConcatCells(_, _)
ConcatCells(dataframes, name) ==
    IF dataframes = <<>> THEN <<>>
    ELSE LET last == dataframes[Len(dataframes)]
         IN  ConcatCells(SubSeq(dataframes, 1, Len(dataframes) - 1), name)
             \o (IF HasColumn(last, name) THEN Cells(last, name)
                 ELSE [r \in 1..NumRows(last) |-> NaN])

\* pd.concat(dataframes, join=..., ignore_index=True)
PdConcat(dataframes, join) ==
    LET names == IF join = "inner" THEN IntersectionColumns(dataframes)
                 ELSE UnionColumns(dataframes)
    IN  [c \in DOMAIN names |->
            [name |-> names[c], cells |-> ConcatCells(dataframes, names[c])]]

\* lines 122-124: drop_duplicates(subset=..., keep="first")
DropDuplicates(df, subset) ==
    LET keys == Cells(df, subset)
        Keep(r) == \A q \in 1..(r - 1) : keys[q] # keys[r]
        rows == SelectSeq([r \in DOMAIN keys |-> r], Keep)
    IN  [c \in DOMAIN df |->
            [name |-> df[c].name,
             cells |-> [i \in DOMAIN rows |-> df[c].cells[rows[i]]]]]

\* lines 107-119
ConcatError(dataframes, column_overlap) ==
    IF column_overlap = "exact" /\ ~SameColumns(dataframes)
    THEN "InvalidArgumentValueError"
    ELSE "none"

\* lines 107-124
Concated(dataframes, hp) ==
    LET concated == PdConcat(dataframes,
                             IF hp.column_overlap = "intersection"
                             THEN "inner" ELSE "outer")
    IN  IF hp.remove_duplicate_rows
        THEN DropDuplicates(concated, "d3mIndex")
        ELSE concated

\* lines 126-133: the metadata of the last input with the new length
ConcatOutput(inputs, concated) ==
    [df |-> concated,
     metadata |-> [inputs[Len(inputs)].metadata EXCEPT
                      !.length = NumRows(concated)]]

InitConcat ==
    /\ pc = "produce"
    /\ \E inputs \in ConcatInputs : call = [inputs |-> inputs]
    /\ hyperparams \in ConcatHyperparams
    /\ ret = <<>>
    /\ error = NoError
    /\ left = <<>>
    /\ right = <<>>
    /\ frame = <<>>
    /\ self = <<>>

\* lines 89-135
VerticalConcat ==
    /\ pc = "produce"
    /\ LET dataframes == Dataframes(call.inputs)
           e == ConcatError(dataframes, hyperparams.column_overlap)
       IN  IF e # "none"
           THEN /\ error' = [exception |-> e, message |-> <<>>]
                /\ pc' = "raised"
                /\ UNCHANGED ret
           ELSE /\ ret' = ConcatOutput(call.inputs,
                                       Concated(dataframes, hyperparams))
                /\ pc' = "done"
                /\ UNCHANGED error
    /\ UNCHANGED <<call, hyperparams, left, right, frame, self>>

NextConcat == VerticalConcat

SpecConcat == InitConcat /\ [][NextConcat]_vars

(***************************************************************************)
(* Properties of VerticalConcatenationPrimitive (under SpecConcat).        *)
(***************************************************************************)
\* the rows of the inputs: <<k, r>> is row r of input k
InputRows ==
    UNION {{k} \X (1..NumRows(call.inputs[k].df)) : k \in DOMAIN call.inputs}

\* a comes before b in concatenation order
Before(a, b) == a[1] < b[1] \/ (a[1] = b[1] /\ a[2] < b[2])

IndexOfRow(a) == Cells(call.inputs[a[1]].df, "d3mIndex")[a[2]]

\* the first input row with the d3mIndex d
FirstWithIndex(d) ==
    CHOOSE a \in InputRows :
        /\ IndexOfRow(a) = d
        /\ \A b \in InputRows : IndexOfRow(b) = d => (a = b \/ Before(a, b))

\* C24: when produce has returned with remove_duplicate_rows true, no two
\* rows of the result have one d3mIndex, every d3mIndex of the inputs is in
\* the result, and the row of the result with a d3mIndex has, in every column
\* of the result that the input has, the cells of the first input row with
\* that d3mIndex (earlier input first, then earlier row); with
\* remove_duplicate_rows false the result has as many rows as the inputs
\* have together.
C24_FirstRowPerIndexKept ==
    pc = "done" =>
        LET out == ret.df
            index == Cells(out, "d3mIndex")
        IN  IF hyperparams.remove_duplicate_rows
            THEN /\ \A i, j \in DOMAIN index :
                        index[i] = index[j] => i = j
                 /\ Range(index) = {IndexOfRow(a) : a \in InputRows}
                 /\ \A i \in DOMAIN index :
                        LET a == FirstWithIndex(index[i])
                            df == call.inputs[a[1]].df
                        IN  \A c \in DOMAIN df :
                                HasColumn(out, df[c].name) =>
                                    Cells(out, df[c].name)[i]
                                        = df[c].cells[a[2]]
            ELSE NumRows(out) = Cardinality(InputRows)

\* a call with remove_duplicate_rows true has returned fewer rows than two
\* inputs of two rows have together, with the columns of both inputs
C24_Witness ==
    /\ pc = "done"
    /\ hyperparams.remove_duplicate_rows
    /\ hyperparams.column_overlap = "union"
    /\ Len(call.inputs) = 2
    /\ Cardinality(InputRows) = 4
    /\ NumRows(ret.df) = 2
    /\ Len(ret.df) = 3

====
